---- MODULE Spec2Model ----
(***************************************************************************)
(* Growth cellular automaton of the website's canvas: the sequential       *)
(* backend (CanvasGrowthSimulation) and the parallel backend               *)
(* (GrowthSimulation with the growth compute shader), driven in lockstep   *)
(* by the same calls with the same arguments and the same Math.random()    *)
(* draws.                                                                  *)
(*                                                                         *)
(* A cell buffer is a function from the cell index idx = y * W + x to a    *)
(* record [on, age]; the source stores the two numbers at 2*idx, 2*idx+1.  *)
(* An image is a record [w, h, data] where data[i] is the red channel of   *)
(* pixel i (imageData[i * 4] in the source).                               *)
(***************************************************************************)
EXTENDS Integers, Sequences, FiniteSets, TLC

\* ------------------------------------------------------------- bounds
\* Grid width and height (the constructor's arguments).
W == 3
H == 3
\* Math.random() returns k / RandDen for some k in 0 .. RandDen - 1.
RandDen == 2
\* updateMask calls allowed after a setMaskFromImage (ages grow without
\* limit over updateMask / step cycles otherwise).
MaxUpdates == 2

\* Red-channel values: excluded, below the parallel backend's threshold,
\* shadow band, main text.
Intensities == {0, 60, 100, 255}
\* Raster sizes <<w, h>> handed to the simulations.
GrowDims == {<<2, 2>>}
ApiDims == {<<1, 1>>}

\* ------------------------------------------------------------- program constants
seedThreshold == 128
gpuMaskThreshold == 64
completeStepCount == 60
completeAge == 100
regrowStepCount == 500
\* The renderer's visibility delay is floor(hash^2 * 6), below 6.
maxVisibilityDelay == 6
\* The grid the page creates.
simWidth == 256
simHeight == 256
\* The divisor of the hash value.
hashDivisor == 65535

\* Time slots at which hashTime is evaluated.
TimeSlots == {0, 1, 77}

\* step() calls of a rendered run (force completion gives the large ages).
MaxRenderSteps == 2
\* Raster sizes of a rendered run.
RenderDims == {<<2, 1>>}
\* Canvas sizes <<canvasWidth, canvasHeight>> of rendered frames.
CanvasSizes == {<<3, 3>>, <<5, 3>>}
\* The canvas of the idle page's frames: one of its pixels lies on a star.
IdleCanvasSizes == {<<12, 3>>}
\* Frame times and wobble start times, in milliseconds.
FrameTimes == {0, 6000, 8000}
WobbleStarts == {0, 2000}
\* Underline rectangles handed to setUnderline, in hundredths.
UnderlineRegions == {[x |-> 30, y |-> 30, w |-> 40, h |-> 50]}
\* Rectangles of width <= 0 handed to setUnderline, in hundredths.
InactiveRegions == {[x |-> 0, y |-> 0, w |-> 0, h |-> 50],
                    [x |-> 30, y |-> 30, w |-> -40, h |-> 50]}
\* Canvas and grid sizes on which the aspect correction is evaluated.
AspectCanvasSizes == {<<800, 600>>, <<600, 800>>, <<256, 256>>, <<1024, 256>>}
AspectSimSizes == {<<256, 256>>, <<512, 512>>}

\* loadHomePage calls that may wait for document.fonts.ready at once.
MaxLoads == 2

\* Pixels (cols * rows) of the largest hover overlay.
MaxPixels == 7

\* The grid of a simulation constructed wide enough for a bar of eligible
\* cells that is longer than the steps of a run.
StripW == 64
StripH == 2

\* Raster sizes that differ from the grid, smaller and larger, and the
\* intensity of the first pixel of such a raster.
ResampleDims == {<<1, 1>>, <<2, 5>>, <<5, 2>>, <<7, 7>>}
ResampleOffsets == {0, 200}

\* ------------------------------------------------------------- data
Cells == 0 .. (W * H - 1)

ImagesOf(dims) ==
  UNION { { [w |-> d[1], h |-> d[2], data |-> f] :
              f \in [0 .. (d[1] * d[2] - 1) -> Intensities] } : d \in dims }

GrowImages == ImagesOf(GrowDims)
ApiImages == ImagesOf(ApiDims)

OffCell == [on |-> 0, age |-> 0]
\* Values of the variables that record a call, before any call.
NoUnderline == [x |-> 0, y |-> 0, w |-> 0, h |-> 0]
NoFrame == [op |-> "none"]
NoCall == [op |-> "none"]
NoPass == [open |-> FALSE, pending |-> {}]
EmptyBuffer == [idx \in Cells |-> OffCell]
EmptyMask == [idx \in Cells |-> 0]

VARIABLES
  stateBuffers,      \* canvas: the two cell buffers, indexed 0 and 1
  currentBuffer,     \* canvas: index of the buffer the renderer reads
  maskData,          \* canvas: mask, intensity per cell
  isComplete,        \* canvas
  stepCount,         \* canvas
  gpu_stateBuffers,  \* parallel backend: State Buffer A and B
  gpu_currentBuffer, \* parallel backend
  gpu_maskData,      \* parallel backend: mask (0 or 1 per cell), as uploaded
  gpu_isComplete,    \* parallel backend
  gpu_stepCount,     \* parallel backend
  lastOp,            \* the method called last on both simulations
  updates,           \* updateMask calls since the last setMaskFromImage
  underlineRegion,   \* renderer: underline rectangle [x, y, w, h], in hundredths
  wobbleEnabled,     \* renderer
  wobbleStartTime,   \* renderer: in milliseconds
  frame,             \* the pixels written by the render call just made
  hashCall,          \* arguments and results of a hash / hashTime evaluation
  uvCall,            \* arguments and results of an aspect correction
  gpu_pass,          \* parallel backend: the compute pass in flight
  seeding,           \* canvas: the placeSeeds call under way, loop by loop
  main,              \* main.ts: the variables of init() and its pending callbacks
  pixelState         \* pixel-hover.ts: the PixelState of one element

canvasVars == <<stateBuffers, currentBuffer, maskData, isComplete, stepCount>>
gpuVars == <<gpu_stateBuffers, gpu_currentBuffer, gpu_maskData, gpu_isComplete, gpu_stepCount>>
rendererVars == <<underlineRegion, wobbleEnabled, wobbleStartTime, frame>>
pageVars == <<seeding, main, pixelState>>
auxVars == <<rendererVars, hashCall, uvCall, gpu_pass, pageVars>>
vars == <<canvasVars, gpuVars, lastOp, updates, auxVars>>

\* ------------------------------------------------------------- mask ingestion
\* A sampling that rounds the source coordinate up; a read beyond the end
\* of the raster gives undefined, which is stored as 0.
sampleImage_ceil(img, x, y) ==
  LET imgX == (x * img.w + W - 1) \div W
      imgY == (y * img.h + H - 1) \div H
  IN  IF (imgY * img.w + imgX) \in DOMAIN img.data THEN img.data[imgY * img.w + imgX] ELSE 0

\* imageData[(imgY * imageWidth + imgX) * 4] for grid cell (x, y); the
\* floating-point floor((x / W) * imageWidth) equals the integer quotient
\* for the sizes used here.
sampleImage(img, x, y) ==
  LET imgX == (x * img.w) \div W
      imgY == (y * img.h) \div H
  IN  img.data[imgY * img.w + imgX]

\* setMaskFromImage's loop of the canvas backend: the intensity itself.
intensityMask(img) ==
  [idx \in Cells |-> sampleImage(img, idx % W, idx \div W)]

\* updateMask's loop of the canvas backend: thresholded to 0 / 1.
thresholdMask(img) ==
  [idx \in Cells |-> IF sampleImage(img, idx % W, idx \div W) > gpuMaskThreshold THEN 1 ELSE 0]

\* setMaskFromImage's and updateMask's loop of the parallel backend.
gpu_thresholdMask(img) ==
  [idx \in Cells |-> IF sampleImage(img, idx % W, idx \div W) > gpuMaskThreshold THEN 1 ELSE 0]

\* ------------------------------------------------------------- seeding
\* A flood fill that also follows the four diagonals.
RECURSIVE floodFill_diagonal(_, _, _, _, _)
floodFill_diagonal(stack, visited, component, mask, threshold) ==
  IF stack = <<>> THEN [visited |-> visited, component |-> component]
  ELSE
    LET top == stack[Len(stack)]
        rest == SubSeq(stack, 1, Len(stack) - 1)
        x == top[1]
        y == top[2]
        idx == y * W + x
    IN  IF x < 0 \/ x >= W \/ y < 0 \/ y >= H
          THEN floodFill_diagonal(rest, visited, component, mask, threshold)
        ELSE IF visited[idx] = 1 \/ mask[idx] <= threshold
          THEN floodFill_diagonal(rest, visited, component, mask, threshold)
        ELSE floodFill_diagonal(
               rest \o << <<x - 1, y>>, <<x + 1, y>>, <<x, y - 1>>, <<x, y + 1>>,
                          <<x - 1, y - 1>>, <<x + 1, y - 1>>, <<x - 1, y + 1>>, <<x + 1, y + 1>> >>,
               [visited EXCEPT ![idx] = 1], Append(component, idx), mask, threshold)

RECURSIVE floodFill(_, _, _, _, _)
floodFill(stack, visited, component, mask, threshold) ==
  IF stack = <<>> THEN [visited |-> visited, component |-> component]
  ELSE
    LET top == stack[Len(stack)]
        rest == SubSeq(stack, 1, Len(stack) - 1)
        x == top[1]
        y == top[2]
        idx == y * W + x
    IN  IF x < 0 \/ x >= W \/ y < 0 \/ y >= H
          THEN floodFill(rest, visited, component, mask, threshold)
        ELSE IF visited[idx] = 1 \/ mask[idx] <= threshold
          THEN floodFill(rest, visited, component, mask, threshold)
        ELSE floodFill(rest \o << <<x - 1, y>>, <<x + 1, y>>, <<x, y - 1>>, <<x, y + 1>> >>,
                       [visited EXCEPT ![idx] = 1], Append(component, idx), mask, threshold)

\* The row-major scan of placeSeeds: the list of components, each a list
\* of cell indices in the order the flood fill found them.
RECURSIVE scanComponents(_, _, _, _)
scanComponents(idx, visited, components, mask) ==
  IF idx = W * H THEN components
  ELSE IF mask[idx] > seedThreshold /\ visited[idx] = 0
    THEN LET r == floodFill(<< <<idx % W, idx \div W>> >>, visited, <<>>, mask, seedThreshold)
         IN  scanComponents(idx + 1, r.visited,
                            IF Len(r.component) > 0 THEN Append(components, r.component)
                                                    ELSE components,
                            mask)
  ELSE scanComponents(idx + 1, visited, components, mask)

findComponents(mask) == scanComponents(0, [idx \in Cells |-> 0], <<>>, mask)

\* component[Math.floor(Math.random() * component.length)], the draw
\* being draw / RandDen.
seedCell(component, draw) == component[((draw * Len(component)) \div RandDen) + 1]

\* The seeding loop of placeSeeds: one seed per component, on with age 0,
\* written into stateData.
placeSeeds(stateData, mask, draws) ==
  LET components == findComponents(mask)
      seeds == { seedCell(components[i], draws[i]) : i \in 1 .. Len(components) }
  IN  [idx \in Cells |-> IF idx \in seeds THEN [on |-> 1, age |-> 0] ELSE stateData[idx]]

RECURSIVE gpu_floodFill(_, _, _, _)
gpu_floodFill(stack, visited, component, mask) ==
  IF stack = <<>> THEN [visited |-> visited, component |-> component]
  ELSE
    LET top == stack[Len(stack)]
        rest == SubSeq(stack, 1, Len(stack) - 1)
        x == top[1]
        y == top[2]
        idx == y * W + x
    IN  IF x < 0 \/ x >= W \/ y < 0 \/ y >= H
          THEN gpu_floodFill(rest, visited, component, mask)
        ELSE IF visited[idx] = 1 \/ mask[idx] = 0
          THEN gpu_floodFill(rest, visited, component, mask)
        ELSE gpu_floodFill(rest \o << <<x - 1, y>>, <<x + 1, y>>, <<x, y - 1>>, <<x, y + 1>> >>,
                           [visited EXCEPT ![idx] = 1], Append(component, idx), mask)

RECURSIVE gpu_scanComponents(_, _, _, _)
gpu_scanComponents(idx, visited, components, mask) ==
  IF idx = W * H THEN components
  ELSE IF mask[idx] = 1 /\ visited[idx] = 0
    THEN LET r == gpu_floodFill(<< <<idx % W, idx \div W>> >>, visited, <<>>, mask)
         IN  gpu_scanComponents(idx + 1, r.visited,
                                IF Len(r.component) > 0 THEN Append(components, r.component)
                                                        ELSE components,
                                mask)
  ELSE gpu_scanComponents(idx + 1, visited, components, mask)

gpu_findComponents(mask) == gpu_scanComponents(0, [idx \in Cells |-> 0], <<>>, mask)

gpu_placeSeeds(stateData, mask, draws) ==
  LET components == gpu_findComponents(mask)
      seeds == { seedCell(components[i], draws[i]) : i \in 1 .. Len(components) }
  IN  [idx \in Cells |-> IF idx \in seeds THEN [on |-> 1, age |-> 0] ELSE stateData[idx]]

\* The Math.random() results a setMaskFromImage call on both backends
\* consumes, in call order: one per component.
DrawsFor(img) ==
  LET nc == Len(findComponents(intensityMask(img)))
      ng == Len(gpu_findComponents(gpu_thresholdMask(img)))
      n == IF nc > ng THEN nc ELSE ng
  IN  [1 .. n -> 0 .. (RandDen - 1)]

\* ------------------------------------------------------------- step rule
\* An index that clamps a neighbour beyond an edge to the edge.
wrapIndex_noWrap(nx, ny) ==
  LET wx == IF nx < 0 THEN 0 ELSE IF nx > W - 1 THEN W - 1 ELSE nx
      wy == IF ny < 0 THEN 0 ELSE IF ny > H - 1 THEN H - 1 ELSE ny
  IN  wy * W + wx

\* ((nx % W) + W) % W, where % is the remainder of JavaScript.
wrapIndex(nx, ny) ==
  LET wx == ((nx % W) + W) % W
      wy == ((ny % H) + H) % H
  IN  wy * W + wx

isOn(current, nx, ny) == current[wrapIndex(nx, ny)].on = 1

\* A step rule without the "already on, stay on" branch.
stepCell_noStay(current, mask, x, y) ==
  LET idx == y * W + x
  IN  IF mask[idx] = 0 THEN [on |-> 0, age |-> 0]
      ELSE IF \/ isOn(current, x - 1, y)     \/ isOn(current, x + 1, y)
              \/ isOn(current, x, y - 1)     \/ isOn(current, x, y + 1)
              \/ isOn(current, x - 1, y - 1) \/ isOn(current, x + 1, y - 1)
              \/ isOn(current, x - 1, y + 1) \/ isOn(current, x + 1, y + 1)
        THEN [on |-> 1, age |-> IF current[idx].on = 1 THEN current[idx].age + 1 ELSE 0]
      ELSE [on |-> 0, age |-> 0]

\* A loop body that turns a masked-out cell off without clearing its age.
stepCell_keepAge(current, mask, x, y) ==
  LET idx == y * W + x
  IN  IF mask[idx] = 0 THEN [on |-> 0, age |-> current[idx].age]
      ELSE IF current[idx].on = 1 THEN [on |-> 1, age |-> current[idx].age + 1]
      ELSE IF \/ isOn(current, x - 1, y)     \/ isOn(current, x + 1, y)
              \/ isOn(current, x, y - 1)     \/ isOn(current, x, y + 1)
              \/ isOn(current, x - 1, y - 1) \/ isOn(current, x + 1, y - 1)
              \/ isOn(current, x - 1, y + 1) \/ isOn(current, x + 1, y + 1)
        THEN [on |-> 1, age |-> 0]
      ELSE [on |-> 0, age |-> 0]

\* A loop body that keeps a cell on without counting the step.
stepCell_holdAge(current, mask, x, y) ==
  LET idx == y * W + x
  IN  IF mask[idx] = 0 THEN [on |-> 0, age |-> 0]
      ELSE IF current[idx].on = 1 THEN [on |-> 1, age |-> current[idx].age]
      ELSE IF \/ isOn(current, x - 1, y)     \/ isOn(current, x + 1, y)
              \/ isOn(current, x, y - 1)     \/ isOn(current, x, y + 1)
              \/ isOn(current, x - 1, y - 1) \/ isOn(current, x + 1, y - 1)
              \/ isOn(current, x - 1, y + 1) \/ isOn(current, x + 1, y + 1)
        THEN [on |-> 1, age |-> 0]
      ELSE [on |-> 0, age |-> 0]

\* The loop body of step() for the cell (x, y): the value written to next.
stepCell(current, mask, x, y) ==
  LET idx == y * W + x
  IN  IF mask[idx] = 0 THEN [on |-> 0, age |-> 0]
      ELSE IF current[idx].on = 1 THEN [on |-> 1, age |-> current[idx].age + 1]
      ELSE IF \/ isOn(current, x - 1, y)     \/ isOn(current, x + 1, y)
              \/ isOn(current, x, y - 1)     \/ isOn(current, x, y + 1)
              \/ isOn(current, x - 1, y - 1) \/ isOn(current, x + 1, y - 1)
              \/ isOn(current, x - 1, y + 1) \/ isOn(current, x + 1, y + 1)
        THEN [on |-> 1, age |-> 0]
      ELSE [on |-> 0, age |-> 0]

stepBuffer(current, mask) ==
  [idx \in Cells |-> stepCell(current, mask, idx % W, idx \div W)]

gpu_getIndex(x, y) ==
  LET wx == ((x % W) + W) % W
      wy == ((y % H) + H) % H
  IN  wy * W + wx

gpu_isOn(currentState, x, y) == currentState[gpu_getIndex(x, y)].on = 1

\* One invocation of the compute shader's main for id = (x, y): the value
\* it stores in nextState[idx].
gpu_main(currentState, mask, x, y) ==
  LET idx == y * W + x
  IN  IF mask[idx] = 0 THEN [on |-> 0, age |-> 0]
      ELSE IF currentState[idx].on = 1 THEN [on |-> 1, age |-> currentState[idx].age + 1]
      ELSE IF \/ gpu_isOn(currentState, x - 1, y)     \/ gpu_isOn(currentState, x + 1, y)
              \/ gpu_isOn(currentState, x, y - 1)     \/ gpu_isOn(currentState, x, y + 1)
              \/ gpu_isOn(currentState, x - 1, y - 1) \/ gpu_isOn(currentState, x + 1, y - 1)
              \/ gpu_isOn(currentState, x - 1, y + 1) \/ gpu_isOn(currentState, x + 1, y + 1)
        THEN [on |-> 1, age |-> 0]
      ELSE [on |-> 0, age |-> 0]

\* A bind group that binds the buffer being written as currentState too.
gpu_currentStateBinding_inPlace(bindGroup) == gpu_stateBuffers[1 - bindGroup]

\* bindGroups[bindGroup]: binding 0 (currentState, read only) is
\* stateBuffers[bindGroup], binding 1 (nextState) is the other buffer.
gpu_currentStateBinding(bindGroup) == gpu_stateBuffers[bindGroup]
gpu_nextStateBinding(bindGroup) == 1 - bindGroup

\* The dispatch of step(): one invocation per cell, each writing its own slot.
gpu_dispatch(currentState, mask) ==
  [idx \in Cells |-> gpu_main(currentState, mask, idx % W, idx \div W)]

\* step()'s completion test.
stepCompletes(count) == count > completeStepCount

\* ------------------------------------------------------------- force complete
\* A setComplete that turns on the main-text cells only.
completeBuffer_mainOnly(stateData, mask) ==
  [idx \in Cells |-> IF mask[idx] > seedThreshold THEN [on |-> 1, age |-> completeAge]
                                                  ELSE stateData[idx]]

\* setComplete's loop of the canvas backend, in place on stateData.
completeBuffer(stateData, mask) ==
  [idx \in Cells |-> IF mask[idx] > 0 THEN [on |-> 1, age |-> completeAge] ELSE stateData[idx]]

\* setComplete's loop of the parallel backend, on a fresh zeroed array.
gpu_completeBuffer(mask) ==
  [idx \in Cells |-> IF mask[idx] = 1 THEN [on |-> 1, age |-> completeAge] ELSE OffCell]


\* ------------------------------------------------------------- hashing
\* A 32-bit unsigned integer is a pair <<hi, lo>> of 16-bit halves, so that
\* no intermediate value leaves the range of the checker's integers.
\* n >>> 0, for an exactly computed 0 <= n < 2^31.
toUint32(n) == <<(n \div 65536) % 65536, n % 65536>>

\* The exact product of two 16-bit numbers, as <<hi, lo>>.
mul16(a, b) ==
  LET p0 == a * (b % 256)
      p1 == a * (b \div 256)
      low == p0 + (p1 % 256) * 256
  IN  <<(low \div 65536 + p1 \div 256) % 65536, low % 65536>>

\* The low 32 bits of a product of two 32-bit numbers.
mulLow32(a, b) ==
  LET ll == mul16(a[2], b[2])
      cross == (mul16(a[1], b[2])[2] + mul16(a[2], b[1])[2]) % 65536
  IN  <<(ll[1] + cross) % 65536, ll[2]>>

\* Math.imul(a, b) >>> 0.
imul(a, b) == mulLow32(a, b)

\* WGSL u32 multiplication and addition: both wrap modulo 2^32.
gpu_mul(a, b) == mulLow32(a, b)
gpu_add(a, b) ==
  LET low == a[2] + b[2]
  IN  <<(a[1] + b[1] + low \div 65536) % 65536, low % 65536>>

\* Bitwise exclusive or of two 16-bit numbers, bit by bit.
xor16(a, b) ==
    ((a + b) % 2)
  + ((a \div 2 + b \div 2) % 2) * 2
  + ((a \div 4 + b \div 4) % 2) * 4
  + ((a \div 8 + b \div 8) % 2) * 8
  + ((a \div 16 + b \div 16) % 2) * 16
  + ((a \div 32 + b \div 32) % 2) * 32
  + ((a \div 64 + b \div 64) % 2) * 64
  + ((a \div 128 + b \div 128) % 2) * 128
  + ((a \div 256 + b \div 256) % 2) * 256
  + ((a \div 512 + b \div 512) % 2) * 512
  + ((a \div 1024 + b \div 1024) % 2) * 1024
  + ((a \div 2048 + b \div 2048) % 2) * 2048
  + ((a \div 4096 + b \div 4096) % 2) * 4096
  + ((a \div 8192 + b \div 8192) % 2) * 8192
  + ((a \div 16384 + b \div 16384) % 2) * 16384
  + ((a \div 32768 + b \div 32768) % 2) * 32768

\* 0xcc9e2d51
hashMultiplier == <<52382, 11601>>

\* (h ^ (h >>> 15)) & 0xFFFF: bits 0..15 of h against bits 15..30 of h.
foldHash(h) == xor16(h[2], (h[1] % 32768) * 2 + h[2] \div 32768)

\* A folding that leaves out the shifted copy: h & 0xFFFF.
hash_noFold(px, py) ==
  [num |-> imul(toUint32(px * 127 + py * 311 + 7919), hashMultiplier)[2], den |-> hashDivisor]

\* CanvasRenderer.hash: the sum is computed exactly and reduced by >>> 0.
\* The value returned is the fraction num / den.
hash(px, py) ==
  [num |-> foldHash(imul(toUint32(px * 127 + py * 311 + 7919), hashMultiplier)),
   den |-> hashDivisor]

\* CanvasRenderer.hashTime
hashTime(px, py, t) ==
  [num |-> foldHash(imul(toUint32(px * 127 + py * 311 + t * 5381 + 7919), hashMultiplier)),
   den |-> hashDivisor]

\* hash of render-pixels.wgsl: every operation on u32; of h2 = h ^ (h >> 15)
\* only h2 & 0xFFFF is used.
gpu_hash(px, py) ==
  [num |-> foldHash(gpu_mul(gpu_add(gpu_add(gpu_mul(toUint32(px), toUint32(127)),
                                            gpu_mul(toUint32(py), toUint32(311))),
                                    toUint32(7919)),
                            hashMultiplier)),
   den |-> hashDivisor]

\* hashTime of render-pixels.wgsl
gpu_hashTime(px, py, t) ==
  [num |-> foldHash(gpu_mul(gpu_add(gpu_add(gpu_add(gpu_mul(toUint32(px), toUint32(127)),
                                                    gpu_mul(toUint32(py), toUint32(311))),
                                            gpu_mul(toUint32(t), toUint32(5381))),
                                    toUint32(7919)),
                            hashMultiplier)),
   den |-> hashDivisor]

\* A 32-bit number times a small factor, as three 16-bit limbs.
times(u, k) ==
  LET low == u[2] * k
      mid == u[1] * k + low \div 65536
  IN  <<mid \div 65536, mid % 65536, low % 65536>>

\* a <= b for numbers of three limbs.
limbsLeq(a, b) ==
  \/ a[1] < b[1]
  \/ a[1] = b[1] /\ a[2] < b[2]
  \/ a[1] = b[1] /\ a[2] = b[2] /\ a[3] <= b[3]

\* A delay that rounds hash^2 * 6 up.
visibilityDelay_ceil(delayRand) ==
  LET skewed == mul16(delayRand.num, delayRand.num)
      unit == mul16(delayRand.den, delayRand.den)
  IN  Cardinality({ k \in 0 .. (maxVisibilityDelay - 1) :
                      ~ limbsLeq(times(skewed, maxVisibilityDelay), times(unit, k)) })

\* Math.floor(delayRand * delayRand * 6): the number of k in 1 .. 6 with
\* k * den^2 <= 6 * num^2.
visibilityDelay(delayRand) ==
  LET skewed == mul16(delayRand.num, delayRand.num)
      unit == mul16(delayRand.den, delayRand.den)
  IN  Cardinality({ k \in 1 .. maxVisibilityDelay :
                      limbsLeq(times(unit, k), times(skewed, maxVisibilityDelay)) })

\* u32(delayRand * delayRand * 6.0) of the fragment shader.
gpu_visibilityDelay(delayRand) ==
  LET skewed == mul16(delayRand.num, delayRand.num)
      unit == mul16(delayRand.den, delayRand.den)
  IN  Cardinality({ k \in 1 .. maxVisibilityDelay :
                      limbsLeq(times(unit, k), times(skewed, maxVisibilityDelay)) })

\* ------------------------------------------------------------- what the renderer reads
getCurrentState == stateBuffers[currentBuffer]
gpu_getCurrentStateBuffer == gpu_stateBuffers[gpu_currentBuffer]

\* ------------------------------------------------------------- renderer
\* Fractions <<numerator, denominator>> in lowest terms stand for the
\* renderer's real numbers; times are in milliseconds.
RECURSIVE gcd(_, _)
gcd(a, b) == IF b = 0 THEN a ELSE gcd(b, a % b)
abs(n) == IF n < 0 THEN 0 - n ELSE n
Rat(n, d) ==
  LET g == gcd(abs(n), abs(d))
  IN  IF d < 0 THEN <<(0 - n) \div g, (0 - d) \div g>> ELSE <<n \div g, d \div g>>
ratAdd(a, b) == Rat(a[1] * b[2] + b[1] * a[2], a[2] * b[2])
ratSub(a, b) == Rat(a[1] * b[2] - b[1] * a[2], a[2] * b[2])
ratMul(a, b) == Rat(a[1] * b[1], a[2] * b[2])
ratDiv(a, b) == Rat(a[1] * b[2], a[2] * b[1])
ratLt(a, b) == a[1] * b[2] < b[1] * a[2]
ratLeq(a, b) == a[1] * b[2] <= b[1] * a[2]
ratFloor(a) == a[1] \div a[2]
ratAbs(a) == <<abs(a[1]), a[2]>>
Min(a, b) == IF a < b THEN a ELSE b

\* The palette of the sequential renderer.
VOID_BLACK == [r |-> 10, g |-> 14, b |-> 20]
WHITE == [r |-> 232, g |-> 227, b |-> 222]
SHADOW == [r |-> 140, g |-> 166, b |-> 184]

\* A vec3<f32> of the shader, given in thousandths, as the 8-bit colour the
\* render target stores.
unorm8(c) == (c * 255 + 500) \div 1000
gpu_colour(r, g, b) == [r |-> unorm8(r), g |-> unorm8(g), b |-> unorm8(b)]
gpu_void_black == gpu_colour(39, 55, 78)
gpu_white == gpu_colour(910, 890, 870)
gpu_shadow_color == gpu_colour(550, 650, 720)

\* uvX = px / canvasWidth, uvY = py / canvasHeight.
pixelUV(px, py, canvasWidth, canvasHeight) == <<Rat(px, canvasWidth), Rat(py, canvasHeight)>>

\* The uv the rasterizer interpolates for the fragment of pixel (px, py):
\* the pixel's centre on the quad whose corners carry uv 0 and 1.
gpu_fragmentUV(px, py, canvasWidth, canvasHeight) ==
  <<Rat(2 * px + 1, 2 * canvasWidth), Rat(2 * py + 1, 2 * canvasHeight)>>

\* An aspect correction that only shifts the content up.
correctUV_noScale(uv, canvasWidth, canvasHeight, sw, sh) ==
  <<uv[1], ratAdd(uv[2], Rat(7, 100))>>

\* (u - 0.5) * scale + 0.5
scaleAboutCentre(u, scale) == ratAdd(ratMul(ratSub(u, Rat(1, 2)), scale), Rat(1, 2))

\* The aspect correction of render() for the two aspect ratios, and the
\* upward shift.
correctAspect(uv, canvasAspect, simAspect) ==
  IF ratLt(simAspect, canvasAspect)
  THEN <<scaleAboutCentre(uv[1], ratDiv(canvasAspect, simAspect)), ratAdd(uv[2], Rat(7, 100))>>
  ELSE <<uv[1],
         ratAdd(scaleAboutCentre(uv[2], ratDiv(simAspect, canvasAspect)), Rat(7, 100))>>

correctUV(uv, canvasWidth, canvasHeight, sw, sh) ==
  correctAspect(uv, Rat(canvasWidth, canvasHeight), Rat(sw, sh))

\* The same lines of fragmentMain.
gpu_correctAspect(uv, canvasAspect, simAspect) ==
  IF ratLt(simAspect, canvasAspect)
  THEN <<scaleAboutCentre(uv[1], ratDiv(canvasAspect, simAspect)), ratAdd(uv[2], Rat(7, 100))>>
  ELSE <<uv[1],
         ratAdd(scaleAboutCentre(uv[2], ratDiv(simAspect, canvasAspect)), Rat(7, 100))>>

gpu_correctUV(uv, canvasWidth, canvasHeight, sw, sh) ==
  gpu_correctAspect(uv, Rat(canvasWidth, canvasHeight), Rat(sw, sh))

\* uvX < 0 || uvX > 1 || uvY < 0 || uvY > 1
outsideBounds(uv) ==
  \/ uv[1][1] < 0 \/ uv[1][1] > uv[1][2]
  \/ uv[2][1] < 0 \/ uv[2][1] > uv[2][2]

\* An underline test without the test of the width.
inUnderline_noWidth(uv, region) ==
  /\ ratLeq(Rat(region.x, 100), uv[1])
  /\ ratLeq(uv[1], Rat(region.x + region.w, 100))
  /\ ratLeq(Rat(region.y, 100), uv[2])
  /\ ratLeq(uv[2], Rat(region.y + region.h, 100))

\* The underline test, region in hundredths.
inUnderline(uv, region) ==
  /\ ratLeq(Rat(region.x, 100), uv[1])
  /\ ratLeq(uv[1], Rat(region.x + region.w, 100))
  /\ ratLeq(Rat(region.y, 100), uv[2])
  /\ ratLeq(uv[2], Rat(region.y + region.h, 100))
  /\ region.w > 0

\* A wobble that wraps around the grid edges as growth does.
wobbleCell_wrap(cx, cy, wobbleChance, sw, sh) ==
  LET dir == ((wobbleChance.num * 133) \div wobbleChance.den) % 4
  IN  IF ~ (wobbleChance.num * 100 < 3 * wobbleChance.den) THEN <<cx, cy>>
      ELSE IF dir = 0 THEN <<(cx - 1 + sw) % sw, cy>>
      ELSE IF dir = 1 THEN <<(cx + 1) % sw, cy>>
      ELSE IF dir = 2 THEN <<cx, (cy - 1 + sh) % sh>>
      ELSE <<cx, (cy + 1) % sh>>

\* The cell a wobbling pixel samples instead of (cx, cy): one step in the
\* direction floor(wobbleChance * 133) % 4 if wobbleChance < 0.03, clamped.
wobbleCell(cx, cy, wobbleChance, sw, sh) ==
  LET dir == ((wobbleChance.num * 133) \div wobbleChance.den) % 4
  IN  IF ~ (wobbleChance.num * 100 < 3 * wobbleChance.den) THEN <<cx, cy>>
      ELSE IF dir = 0 /\ cx > 0 THEN <<cx - 1, cy>>
      ELSE IF dir = 1 /\ cx < sw - 1 THEN <<cx + 1, cy>>
      ELSE IF dir = 2 /\ cy > 0 THEN <<cx, cy - 1>>
      ELSE IF dir = 3 /\ cy < sh - 1 THEN <<cx, cy + 1>>
      ELSE <<cx, cy>>

\* A colour resolution that ignores the visibility delay.
cellColour_noDelay(state, mask, cx, cy) ==
  LET idx == cy * W + cx
  IN  IF state[idx].on # 1 THEN VOID_BLACK
      ELSE IF mask[idx] > 128 THEN WHITE
      ELSE SHADOW

\* The colour of a pixel that samples the cell (cx, cy): off, not yet
\* revealed, main text or shadow.
cellColour(state, mask, cx, cy) ==
  LET idx == cy * W + cx
  IN  IF state[idx].on # 1 THEN VOID_BLACK
      ELSE IF state[idx].age < visibilityDelay(hash(cx, cy)) THEN VOID_BLACK
      ELSE IF mask[idx] > 128 THEN WHITE
      ELSE SHADOW

\* Math.min(Math.floor(uvX * simWidth), simWidth - 1) and the same for y.
cellOf(uv) ==
  <<Min(ratFloor(ratMul(uv[1], <<W, 1>>)), W - 1),
    Min(ratFloor(ratMul(uv[2], <<H, 1>>)), H - 1)>>

\* The cell the pixel reads: (cx, cy), or its neighbour while wobbling.
sampledCell(c, timeSlot) ==
  IF wobbleEnabled THEN wobbleCell(c[1], c[2], hashTime(c[1], c[2], timeSlot), W, H)
  ELSE c

\* The part of the loop body after the aspect correction: the colour
\* written, with the branch that wrote it and the cell it sampled (-1: none).
renderUV(uv, timeSlot, cell) ==
  IF outsideBounds(uv) THEN [colour |-> VOID_BLACK, branch |-> "outside", cell |-> -1]
  ELSE IF inUnderline(uv, underlineRegion)
    THEN [colour |-> WHITE, branch |-> "underline", cell |-> -1]
  ELSE [colour |-> cellColour(getCurrentState, maskData, cell[1], cell[2]),
        branch |-> "cell", cell |-> cell[2] * W + cell[1]]

\* wobbleTime and its time slot, Math.floor(wobbleTime).
wobbleTimeSlot(time) == (IF wobbleEnabled THEN time - wobbleStartTime ELSE 0) \div 1000

\* The uv of the pixel after the correction.
pixelCorrectedUV(px, py, canvasWidth, canvasHeight) ==
  correctUV(pixelUV(px, py, canvasWidth, canvasHeight), canvasWidth, canvasHeight, W, H)

\* A loop body that wobbles whether or not the wobble is enabled.
renderPixel_wobbling(px, py, time, canvasWidth, canvasHeight) ==
  renderUV(pixelCorrectedUV(px, py, canvasWidth, canvasHeight), time \div 1000,
           wobbleCell(cellOf(pixelCorrectedUV(px, py, canvasWidth, canvasHeight))[1],
                      cellOf(pixelCorrectedUV(px, py, canvasWidth, canvasHeight))[2],
                      hashTime(cellOf(pixelCorrectedUV(px, py, canvasWidth, canvasHeight))[1],
                               cellOf(pixelCorrectedUV(px, py, canvasWidth, canvasHeight))[2],
                               time \div 1000),
                      W, H))

\* The body of render()'s loops for the pixel (px, py).
renderPixel(px, py, time, canvasWidth, canvasHeight) ==
  renderUV(pixelCorrectedUV(px, py, canvasWidth, canvasHeight), wobbleTimeSlot(time),
           sampledCell(cellOf(pixelCorrectedUV(px, py, canvasWidth, canvasHeight)),
                       wobbleTimeSlot(time)))

\* getStarBrightness once the seed of the star cell and the distance of the
\* pixel from its centre are known, up to what exact arithmetic decides:
\* "none" where it returns 0, "lit" where the star is older than 2 s and in
\* the flat part of its twinkle (brightness = shimmer, at least 0.8), "dim"
\* otherwise. starAge is time - starSeed * 22000 scaled by 1000 * den, and
\* starAge * 0.1 + starSeed * 739 is scaled by 10000 * den.
gpu_starBrightness(starSeed, dist, time) ==
  LET starRadius == IF ((starSeed.num * 7919) % starSeed.den) * 100 < 85 * starSeed.den
                    THEN Rat(45, 100) ELSE Rat(6, 10)
      starAge == time * starSeed.den - starSeed.num * 22000000
      phase == (time * starSeed.den - starSeed.num * 14610000) % (10000 * starSeed.den)
  IN  IF starSeed.num * 20000 >= 9 * starSeed.den THEN "none"
      ELSE IF ratLt(starRadius, dist) THEN "none"
      ELSE IF starAge < 0 THEN "none"
      ELSE IF /\ starAge >= 2000 * starSeed.den
              /\ 1500 * starSeed.den <= phase
              /\ phase <= 7000 * starSeed.den
        THEN "lit"
      ELSE "dim"

\* max(dx, dy)
ratMax(a, b) == IF ratLt(a, b) THEN b ELSE a

gpu_getStarBrightness(cellX, cellY, pixelX, pixelY, time, maxCellX, maxCellY) ==
  IF cellX < 0 \/ cellY < 0 \/ cellX >= maxCellX \/ cellY >= maxCellY THEN "none"
  ELSE gpu_starBrightness(
         gpu_hash(cellX, cellY),
         ratMax(ratMul(ratAbs(ratSub(pixelX, Rat(2 * cellX + 1, 2))), Rat(115, 100)),
                ratAbs(ratSub(pixelY, Rat(2 * cellY + 1, 2)))),
         time)

\* The star grid: 200 cells along the shorter side of the canvas.
gpu_gridScale(canvasAspect) ==
  IF ratLt(<<1, 1>>, canvasAspect) THEN <<ratMul(<<200, 1>>, canvasAspect), <<200, 1>>>>
  ELSE <<<<200, 1>>, ratDiv(<<200, 1>>, canvasAspect)>>

\* The loop of calculateStar over the 3x3 star cells around the pixel: the
\* background, or the blend of background and star colour (a colour outside
\* the palette, not computed here).
gpu_starAround(gridX, gridY, time, maxCellX, maxCellY) ==
  LET brightness == { gpu_getStarBrightness(ratFloor(gridX) + d[1], ratFloor(gridY) + d[2],
                                            gridX, gridY, time, maxCellX, maxCellY) :
                        d \in (-1 .. 1) \X (-1 .. 1) }
  IN  IF "lit" \in brightness THEN [star |-> "lit"]
      ELSE IF "dim" \in brightness THEN [star |-> "dim"]
      ELSE gpu_void_black

gpu_starOnGrid(screenUV, time, gridScale) ==
  gpu_starAround(ratMul(screenUV[1], gridScale[1]), ratMul(screenUV[2], gridScale[2]), time,
                 ratFloor(gridScale[1]) + 1, ratFloor(gridScale[2]) + 1)

\* calculateStar
gpu_calculateStar(screenUV, time, canvasWidth, canvasHeight) ==
  gpu_starOnGrid(screenUV, time, gpu_gridScale(Rat(canvasWidth, canvasHeight)))

\* min(u32(uv.x * simWidth), simWidth - 1) and the same for y.
gpu_cellOf(uv) ==
  <<Min(ratFloor(ratMul(uv[1], <<W, 1>>)), W - 1),
    Min(ratFloor(ratMul(uv[2], <<H, 1>>)), H - 1)>>

\* The cell the fragment reads; the time slot is u32(uniforms.time).
gpu_sampledCell(u, c) ==
  IF u.wobbleEnabled
  THEN wobbleCell(c[1], c[2], gpu_hashTime(c[1], c[2], u.time \div 1000), W, H)
  ELSE c

\* What fragmentMain returns where nothing is drawn while the wobble is on.
gpu_background(u, inputUV) ==
  IF u.wobbleEnabled THEN gpu_calculateStar(inputUV, u.time, u.canvasWidth, u.canvasHeight)
  ELSE gpu_void_black

\* The part of fragmentMain after the aspect correction.
gpu_fragmentColour(state, mask, u, uv, cell, background) ==
  IF outsideBounds(uv) THEN [colour |-> background, branch |-> "outside", cell |-> -1]
  ELSE IF inUnderline(uv, u.underline)
    THEN [colour |-> gpu_white, branch |-> "underline", cell |-> -1]
  ELSE IF state[cell[2] * W + cell[1]].on # 1
    THEN [colour |-> background, branch |-> "cell", cell |-> cell[2] * W + cell[1]]
  ELSE IF state[cell[2] * W + cell[1]].age < gpu_visibilityDelay(gpu_hash(cell[1], cell[2]))
    THEN [colour |-> gpu_void_black, branch |-> "cell", cell |-> cell[2] * W + cell[1]]
  ELSE IF mask[cell[2] * W + cell[1]] > 128
    THEN [colour |-> gpu_white, branch |-> "cell", cell |-> cell[2] * W + cell[1]]
  ELSE [colour |-> gpu_shadow_color, branch |-> "cell", cell |-> cell[2] * W + cell[1]]

\* fragmentMain for the fragment with the given uv, bound to the buffers
\* state and mask and to the uniforms u.
gpu_fragmentMain(state, mask, u, inputUV) ==
  gpu_fragmentColour(
    state, mask, u,
    gpu_correctUV(inputUV, u.canvasWidth, u.canvasHeight, W, H),
    gpu_sampledCell(u, gpu_cellOf(gpu_correctUV(inputUV, u.canvasWidth, u.canvasHeight, W, H))),
    gpu_background(u, inputUV))


\* ------------------------------------------------------------- operations
ConstructedObjects ==
  /\ stateBuffers = [b \in 0 .. 1 |-> EmptyBuffer]
  /\ currentBuffer = 0
  /\ maskData = EmptyMask
  /\ isComplete = FALSE
  /\ stepCount = 0
  /\ gpu_stateBuffers = [b \in 0 .. 1 |-> EmptyBuffer]
  /\ gpu_currentBuffer = 0
  /\ gpu_maskData = EmptyMask
  /\ gpu_isComplete = FALSE
  /\ gpu_stepCount = 0
  /\ lastOp = "constructor"
  /\ updates = 0
  /\ underlineRegion = NoUnderline
  /\ wobbleEnabled = FALSE
  /\ wobbleStartTime = 0
  /\ frame = NoFrame
  /\ gpu_pass = NoPass

\* No script of the page has run yet.
Constructed ==
  /\ ConstructedObjects
  /\ seeding = NoCall
  /\ main = NoCall
  /\ pixelState = NoCall

\* Both simulations and the renderer as constructed; no evaluation recorded.
Init ==
  /\ Constructed
  /\ hashCall = NoCall
  /\ uvCall = NoCall

\* reset(): what it leaves in each buffer.
resetBuffer == EmptyBuffer

\* setMaskFromImage up to the end of placeSeeds, as a function of its
\* arguments and draws (tabulated once for every image).
seededState(img, draws) ==
  LET mask == intensityMask(img)
  IN  [mask |-> mask, stateData |-> placeSeeds(resetBuffer, mask, draws)]

gpu_seededState(img, draws) ==
  LET mask == gpu_thresholdMask(img)
  IN  [mask |-> mask, stateData |-> gpu_placeSeeds(EmptyBuffer, mask, draws)]

\* Every setMaskFromImage call of the model with its result on both
\* backends, computed once.
SeedingCases(images) ==
  UNION { { [img |-> i, draws |-> d,
             canvas |-> seededState(i, d), gpu |-> gpu_seededState(i, d)] :
              d \in DrawsFor(i) } : i \in images }

ApiSeedingCases == SeedingCases(ApiImages)
GrowSeedingCases == SeedingCases(GrowImages)

\* A setMaskFromImage whose placeSeeds leaves the second buffer as reset() left it.
setMaskFromImage_noCopy(r) ==
      /\ maskData' = r.mask
      /\ stateBuffers' = [b \in 0 .. 1 |-> IF b = 0 THEN r.stateData ELSE EmptyBuffer]
      /\ isComplete' = FALSE
      /\ stepCount' = 0
      /\ UNCHANGED currentBuffer

\* The call setMaskFromImage(img.data, img.w, img.h) drawing draws, with
\* r = seededState(img, draws).
setMaskFromImage(r) ==
      /\ maskData' = r.mask
      /\ stateBuffers' = [b \in 0 .. 1 |-> r.stateData]
      /\ isComplete' = FALSE
      /\ stepCount' = 0
      /\ UNCHANGED currentBuffer

\* The same call on the parallel backend, with r = gpu_seededState(img, draws).
gpu_setMaskFromImage(r) ==
      /\ gpu_maskData' = r.mask
      /\ gpu_stateBuffers' = [b \in 0 .. 1 |-> r.stateData]
      /\ gpu_isComplete' = FALSE
      /\ gpu_stepCount' = 0
      /\ UNCHANGED gpu_currentBuffer

\* A step() that fills the other buffer and leaves the index where it was.
step_noFlip ==
  IF isComplete THEN UNCHANGED canvasVars
  ELSE /\ stepCount' = stepCount + 1
       /\ stateBuffers' = [stateBuffers EXCEPT ![1 - currentBuffer] =
                             stepBuffer(stateBuffers[currentBuffer], maskData)]
       /\ isComplete' = stepCompletes(stepCount + 1)
       /\ UNCHANGED <<maskData, currentBuffer>>

\* A step() without the early return.
step_noGuard ==
  /\ stepCount' = stepCount + 1
  /\ stateBuffers' = [stateBuffers EXCEPT ![1 - currentBuffer] =
                        stepBuffer(stateBuffers[currentBuffer], maskData)]
  /\ currentBuffer' = 1 - currentBuffer
  /\ isComplete' = stepCompletes(stepCount + 1)
  /\ UNCHANGED maskData

step ==
  IF isComplete THEN UNCHANGED canvasVars
  ELSE /\ stepCount' = stepCount + 1
       /\ stateBuffers' = [stateBuffers EXCEPT ![1 - currentBuffer] =
                             stepBuffer(stateBuffers[currentBuffer], maskData)]
       /\ currentBuffer' = 1 - currentBuffer
       /\ isComplete' = stepCompletes(stepCount + 1)
       /\ UNCHANGED maskData

gpu_step ==
  IF gpu_isComplete THEN UNCHANGED gpuVars
  ELSE /\ gpu_stepCount' = gpu_stepCount + 1
       /\ gpu_stateBuffers' = [gpu_stateBuffers EXCEPT ![1 - gpu_currentBuffer] =
                                 gpu_dispatch(gpu_stateBuffers[gpu_currentBuffer], gpu_maskData)]
       /\ gpu_currentBuffer' = 1 - gpu_currentBuffer
       /\ gpu_isComplete' = (gpu_stepCount + 1 > completeStepCount)
       /\ UNCHANGED gpu_maskData

setComplete ==
  /\ stateBuffers' = [stateBuffers EXCEPT ![currentBuffer] =
                        completeBuffer(stateBuffers[currentBuffer], maskData)]
  /\ isComplete' = TRUE
  /\ UNCHANGED <<currentBuffer, maskData, stepCount>>

gpu_setComplete ==
  /\ gpu_stateBuffers' = [b \in 0 .. 1 |-> gpu_completeBuffer(gpu_maskData)]
  /\ gpu_isComplete' = TRUE
  /\ UNCHANGED <<gpu_currentBuffer, gpu_maskData, gpu_stepCount>>

\* An updateMask that starts with reset(), as setMaskFromImage does.
updateMask_reset(img) ==
  /\ maskData' = thresholdMask(img)
  /\ stateBuffers' = [b \in 0 .. 1 |-> EmptyBuffer]
  /\ isComplete' = FALSE
  /\ stepCount' = 0
  /\ UNCHANGED currentBuffer

updateMask(img) ==
  /\ maskData' = thresholdMask(img)
  /\ isComplete' = FALSE
  /\ stepCount' = IF isComplete THEN regrowStepCount ELSE stepCount
  /\ UNCHANGED <<stateBuffers, currentBuffer>>

gpu_updateMask(img) ==
  /\ gpu_maskData' = gpu_thresholdMask(img)
  /\ gpu_isComplete' = FALSE
  /\ gpu_stepCount' = IF gpu_isComplete THEN regrowStepCount ELSE gpu_stepCount
  /\ UNCHANGED <<gpu_stateBuffers, gpu_currentBuffer>>

\* ------------------------------------------------------------- calls on both backends
CallSetMaskFromImage(cases) ==
  \E c \in cases :
    /\ setMaskFromImage(c.canvas)
    /\ gpu_setMaskFromImage(c.gpu)
    /\ lastOp' = "setMaskFromImage"
    /\ updates' = 0
    /\ frame' = NoFrame
    /\ UNCHANGED <<underlineRegion, wobbleEnabled, wobbleStartTime, hashCall, uvCall, gpu_pass, pageVars>>

CallStep ==
  /\ step
  /\ gpu_step
  /\ lastOp' = "step"
  /\ frame' = NoFrame
  /\ UNCHANGED <<updates, underlineRegion, wobbleEnabled, wobbleStartTime, hashCall, uvCall, gpu_pass, pageVars>>

CallSetComplete ==
  /\ setComplete
  /\ gpu_setComplete
  /\ lastOp' = "setComplete"
  /\ frame' = NoFrame
  /\ UNCHANGED <<updates, underlineRegion, wobbleEnabled, wobbleStartTime, hashCall, uvCall, gpu_pass, pageVars>>

CallUpdateMask(images) ==
  /\ updates < MaxUpdates
  /\ \E img \in images :
       /\ updateMask(img)
       /\ gpu_updateMask(img)
  /\ lastOp' = "updateMask"
  /\ updates' = updates + 1
  /\ frame' = NoFrame
  /\ UNCHANGED <<underlineRegion, wobbleEnabled, wobbleStartTime, hashCall, uvCall, gpu_pass, pageVars>>

\* Every method, in any order.
Next ==
  \/ CallSetMaskFromImage(ApiSeedingCases)
  \/ CallStep
  \/ CallSetComplete
  \/ CallUpdateMask(ApiImages)

Spec == Init /\ [][Next]_vars

\* A growth run: a mask is set before the first step, then the frame loop
\* steps.
NextGrow ==
  \/ (stepCount = 0 /\ CallSetMaskFromImage(GrowSeedingCases))
  \/ CallStep

SpecGrow == Init /\ [][NextGrow]_vars

\* ------------------------------------------------------------- the page script
\* main.ts drives the sequential backend and the canvas renderer. main holds
\* the variables of init(): currentPath, isGrowing, isCanvasMode,
\* hasVisitedHome, frameCount (modulo 4, the only way it is read), the
\* number of loadHomePage calls waiting at `await document.fonts.ready`,
\* whether the frame loop has been requested, and what the last callback did.
Paths == {"home", "projects"}
\* The mask rasterizePage gives for the home page: main text and shadow.
HomeImages == { [w |-> 2, h |-> 1, data |-> [k \in 0 .. 1 |-> IF k = 0 THEN 255 ELSE 100]] }
HomeSeedingCases == SeedingCases(HomeImages)

isHomePath(navPath) == navPath = "home"

\* A frame that starts the wobble as soon as the page is growing.
shouldEnableWobble_early(complete, growing) == growing

\* frame(): the two tests of the main loop.
shouldStep(growing, complete, frameCount) == growing /\ ~ complete /\ frameCount % 4 = 0
shouldEnableWobble(complete, growing) == complete /\ growing

InitMain ==
  /\ ConstructedObjects
  /\ hashCall = NoCall
  /\ uvCall = NoCall
  /\ seeding = NoCall
  /\ pixelState = NoCall
  /\ \E initialPath \in Paths :
       main = [currentPath |-> initialPath, isGrowing |-> FALSE,
               isCanvasMode |-> isHomePath(initialPath), hasVisitedHome |-> FALSE,
               frameCount |-> 0,
               loads |-> IF isHomePath(initialPath) THEN 1 ELSE 0,
               looping |-> ~ isHomePath(initialPath),
               lastCall |-> NoCall]

\* The part of a navigation after currentPath is set: loadHomePage up to
\* its await, or showHtmlMode.
showPage(navPath, op) ==
  /\ main' = [main EXCEPT !.currentPath = navPath,
                          !.isCanvasMode = isHomePath(navPath),
                          !.loads = IF isHomePath(navPath) THEN @ + 1 ELSE @,
                          !.lastCall = [op |-> op]]
  /\ underlineRegion' = IF isHomePath(navPath) THEN NoUnderline ELSE underlineRegion
  /\ UNCHANGED <<canvasVars, gpuVars, lastOp, updates, wobbleEnabled, wobbleStartTime, frame,
                 hashCall, uvCall, gpu_pass, seeding, pixelState>>

\* A click on a [data-nav] link.
navigateTo ==
  \E navPath \in Paths :
    /\ navPath # main.currentPath
    /\ isHomePath(navPath) => main.loads < MaxLoads
    /\ showPage(navPath, "navigateTo")

\* Browser back / forward.
popstate ==
  \E navPath \in Paths :
    /\ isHomePath(navPath) => main.loads < MaxLoads
    /\ showPage(navPath, "popstate")

\* loadHomePage after its await: the mask is set, then the run is completed
\* at once on a return visit, or left to grow on the first visit. When the
\* first call returns, init() requests the first frame.
loadHomePage ==
  /\ main.loads > 0
  /\ \E c \in HomeSeedingCases, now \in WobbleStarts :
       IF main.hasVisitedHome
       THEN /\ maskData' = c.canvas.mask
            /\ stateBuffers' = [b \in 0 .. 1 |->
                                  IF b = currentBuffer
                                  THEN completeBuffer(c.canvas.stateData, c.canvas.mask)
                                  ELSE c.canvas.stateData]
            /\ isComplete' = TRUE
            /\ stepCount' = 0
            /\ wobbleEnabled' = TRUE
            /\ wobbleStartTime' = now
            /\ main' = [main EXCEPT !.isGrowing = FALSE, !.loads = @ - 1, !.looping = TRUE,
                                    !.lastCall = [op |-> "loadHomePage"]]
       ELSE /\ maskData' = c.canvas.mask
            /\ stateBuffers' = [b \in 0 .. 1 |-> c.canvas.stateData]
            /\ isComplete' = FALSE
            /\ stepCount' = 0
            /\ wobbleEnabled' = FALSE
            /\ UNCHANGED wobbleStartTime
            /\ main' = [main EXCEPT !.hasVisitedHome = TRUE, !.isGrowing = TRUE,
                                    !.loads = @ - 1, !.looping = TRUE,
                                    !.lastCall = [op |-> "loadHomePage"]]
  /\ lastOp' = "setMaskFromImage"
  /\ UNCHANGED <<currentBuffer, gpuVars, updates, underlineRegion, frame, hashCall, uvCall,
                 gpu_pass, seeding, pixelState>>

\* frame(time): in canvas mode the run is stepped every fourth frame while
\* it grows, the wobble starts once it is complete, and the frame is
\* rendered; lastCall keeps whether step() met a Complete run and what the
\* render call found.
animationFrame ==
  /\ main.looping
  /\ IF ~ main.isCanvasMode
     THEN /\ main' = [main EXCEPT !.lastCall = [op |-> "frame", stepped |-> FALSE,
                                                 rendered |-> FALSE]]
          /\ UNCHANGED <<canvasVars, wobbleEnabled, wobbleStartTime, lastOp>>
     ELSE LET count == (main.frameCount + 1) % 4
              stepped == shouldStep(main.isGrowing, isComplete, count)
              complete == IF stepped /\ ~ isComplete THEN stepCompletes(stepCount + 1)
                          ELSE isComplete
              idle == shouldEnableWobble(complete, main.isGrowing)
          IN  /\ IF stepped THEN step /\ lastOp' = "step"
                            ELSE UNCHANGED <<canvasVars, lastOp>>
              /\ \E time \in WobbleStarts :
                   /\ wobbleEnabled' = (idle \/ wobbleEnabled)
                   /\ wobbleStartTime' = IF idle THEN time ELSE wobbleStartTime
              /\ main' = [main EXCEPT
                            !.frameCount = count,
                            !.isGrowing = IF idle THEN FALSE ELSE @,
                            !.lastCall = [op |-> "frame", stepped |-> stepped,
                                          steppedComplete |-> stepped /\ isComplete,
                                          rendered |-> TRUE,
                                          wobbleEnabled |-> (idle \/ wobbleEnabled),
                                          isComplete |-> complete]]
  /\ UNCHANGED <<gpuVars, updates, underlineRegion, frame, hashCall, uvCall, gpu_pass,
                 seeding, pixelState>>

NextMain ==
  \/ navigateTo
  \/ popstate
  \/ loadHomePage
  \/ animationFrame

SpecMain == InitMain /\ [][NextMain]_vars

\* ------------------------------------------------------------- the hover overlay
\* effects/pixel-hover.ts, the PixelState of one element. pixels is the
\* array of cols * rows flags; an animation id is "null", "requested" (the
\* callback is waiting for its frame) or "stale" (it ran or was cancelled);
\* cracklePixels keeps the indices of the map, not the expiry times.
\* fillFrames counts the fill callbacks since pixels was last cleared.
PixelCounts == {0, 1, MaxPixels}
FILL_SPEED == [num |-> 3, den |-> 20]
CRACKLE_MAX_ACTIVE == [num |-> 24, den |-> 100]
CRACKLE_CANDIDATES == [num |-> 1, den |-> 100]

\* Math.ceil(total * fraction)
ceilShare(total, fraction) == (total * fraction.num + fraction.den - 1) \div fraction.den

\* A fill that rounds the share of a frame down.
pixelsToFill_floor(totalPixels) == (totalPixels * FILL_SPEED.num) \div FILL_SPEED.den

pixelsToFill(totalPixels) ==
  IF ceilShare(totalPixels, FILL_SPEED) < 1 THEN 1 ELSE ceilShare(totalPixels, FILL_SPEED)

clearedPixels(n) == [i \in 0 .. n - 1 |-> FALSE]
filledPixels(s) == {i \in DOMAIN s.pixels : s.pixels[i]}
unfilledIndices(s) == {i \in DOMAIN s.pixels : ~ s.pixels[i]}

\* cancelAnimationFrame(id) behind `if (id)`.
cancelled(id) == IF id = "null" THEN "null" ELSE "stale"

\* The states animateCrackle can leave: any of the crackle pixels expire,
\* and while fewer than maxActive are lit each candidate may light one more.
animateCrackle(s) ==
  IF ~ s.isHovering \/ ~ s.isFilled THEN {s}
  ELSE LET totalPixels == Cardinality(DOMAIN s.pixels)
           maxActive == ceilShare(totalPixels, CRACKLE_MAX_ACTIVE)
           candidateCount == ceilShare(totalPixels, CRACKLE_CANDIDATES)
       IN  UNION { { [s EXCEPT !.cracklePixels = kept \cup spawned,
                               !.crackleAnimationId = "requested"] :
                     spawned \in { c \in SUBSET (DOMAIN s.pixels \ kept) :
                                     /\ Cardinality(c) <= candidateCount
                                     /\ c # {} => Cardinality(kept) + Cardinality(c) <= maxActive } } :
                   kept \in SUBSET s.cracklePixels }

\* The states animateFill can leave: shuffleArray puts any
\* min(pixelsToFill, unfilled) of the unfilled indices first.
animateFill(s) ==
  IF ~ s.isHovering THEN {s}
  ELSE IF unfilledIndices(s) = {} THEN animateCrackle([s EXCEPT !.isFilled = TRUE])
  ELSE LET totalPixels == Cardinality(DOMAIN s.pixels)
           count == Min(pixelsToFill(totalPixels), Cardinality(unfilledIndices(s)))
       IN  { [s EXCEPT !.pixels = [i \in DOMAIN s.pixels |-> s.pixels[i] \/ i \in chosen],
                       !.fillAnimationId = "requested"] :
             chosen \in { c \in SUBSET unfilledIndices(s) : Cardinality(c) = count } }

updateCanvasSize(s, n) ==
  LET reset == [s EXCEPT !.pixels = clearedPixels(n), !.isFilled = FALSE,
                         !.cracklePixels = {}, !.fillFrames = 0]
  IN  IF s.isHovering
      THEN animateFill([reset EXCEPT !.fillAnimationId = cancelled(@),
                                     !.crackleAnimationId = "null"])
      ELSE {reset}

handleMouseEnter(s) ==
  animateFill([s EXCEPT !.isHovering = TRUE,
                        !.fillAnimationId = cancelled(@),
                        !.crackleAnimationId = cancelled(@)])

handleMouseLeave(s) ==
  [s EXCEPT !.isHovering = FALSE, !.fillAnimationId = "null", !.crackleAnimationId = "null",
            !.pixels = clearedPixels(Cardinality(DOMAIN s.pixels)), !.isFilled = FALSE,
            !.cracklePixels = {}, !.fillFrames = 0]

\* initPixelHover has built the state and sized it; the pointer is not yet
\* known to be over the element.
InitHover ==
  /\ ConstructedObjects
  /\ hashCall = NoCall
  /\ uvCall = NoCall
  /\ seeding = NoCall
  /\ main = NoCall
  /\ \E n \in PixelCounts :
       pixelState = [pixels |-> clearedPixels(n), isHovering |-> FALSE, isFilled |-> FALSE,
                     fillAnimationId |-> "null", crackleAnimationId |-> "null",
                     cracklePixels |-> {}, fillFrames |-> 0,
                     lastCall |-> [op |-> "initPixelHover"]]

HoverStep(next, op) ==
  /\ pixelState' = [next EXCEPT !.lastCall = [op |-> op]]
  /\ UNCHANGED <<canvasVars, gpuVars, lastOp, updates, rendererVars, hashCall, uvCall,
                 gpu_pass, seeding, main>>

mouseenter == \E next \in handleMouseEnter(pixelState) : HoverStep(next, "mouseenter")

mouseleave == HoverStep(handleMouseLeave(pixelState), "mouseleave")

\* The ResizeObserver callback.
resize ==
  \E n \in PixelCounts :
    \E next \in updateCanvasSize(pixelState, n) : HoverStep(next, "resize")

\* recheckAllHoverStates, with the pointer inside the element's rectangle.
recheckAllHoverStates ==
  /\ ~ pixelState.isHovering
  /\ \E next \in handleMouseEnter(pixelState) : HoverStep(next, "recheckAllHoverStates")

\* The callback animateFill requested.
fillFrame ==
  /\ pixelState.fillAnimationId = "requested"
  /\ \E next \in animateFill([pixelState EXCEPT !.fillAnimationId = "stale",
                                                 !.fillFrames = @ + 1]) :
       HoverStep(next, "fillFrame")

\* The callback animateCrackle requested.
crackleFrame ==
  /\ pixelState.crackleAnimationId = "requested"
  /\ \E next \in animateCrackle([pixelState EXCEPT !.crackleAnimationId = "stale"]) :
       HoverStep(next, "crackleFrame")

NextHover ==
  \/ mouseenter
  \/ mouseleave
  \/ resize
  \/ recheckAllHoverStates
  \/ fillFrame
  \/ crackleFrame

SpecHover == InitHover /\ [][NextHover]_vars

\* ------------------------------------------------------------- seed placement, loop by loop
\* Intensities on either side of the seed threshold, and the rasters of the
\* grid's own size made of them.
FillIntensities == {128, 255}
FillDims == {<<3, 3>>}
FillImages ==
  UNION { { [w |-> d[1], h |-> d[2], data |-> f] :
              f \in [0 .. (d[1] * d[2] - 1) -> FillIntensities] } : d \in FillDims }

\* A fill that reaches across the grid edges as the growth rule does.
pushNeighbours_wrap(x, y) ==
  << <<(x - 1 + W) % W, y>>, <<(x + 1) % W, y>>,
     <<x, (y - 1 + H) % H>>, <<x, (y + 1) % H>> >>

\* The four stack.push calls of floodFill.
pushNeighbours(x, y) == << <<x - 1, y>>, <<x + 1, y>>, <<x, y - 1>>, <<x, y + 1>> >>

\* setMaskFromImage up to the call of placeSeeds: reset() and the mask loop
\* have run, placeSeeds has allocated visited and components.
InitFill ==
  /\ stateBuffers = [b \in 0 .. 1 |-> EmptyBuffer]
  /\ currentBuffer = 0
  /\ \E img \in FillImages : maskData = intensityMask(img)
  /\ isComplete = FALSE
  /\ stepCount = 0
  /\ gpu_stateBuffers = [b \in 0 .. 1 |-> EmptyBuffer]
  /\ gpu_currentBuffer = 0
  /\ gpu_maskData = EmptyMask
  /\ gpu_isComplete = FALSE
  /\ gpu_stepCount = 0
  /\ lastOp = "constructor"
  /\ updates = 0
  /\ underlineRegion = NoUnderline
  /\ wobbleEnabled = FALSE
  /\ wobbleStartTime = 0
  /\ frame = NoFrame
  /\ gpu_pass = NoPass
  /\ hashCall = NoCall
  /\ uvCall = NoCall
  /\ main = NoCall
  /\ pixelState = NoCall
  /\ seeding = [pc |-> "scan", idx |-> 0, visited |-> [i \in Cells |-> 0],
                components |-> <<>>, component |-> <<>>, stack |-> <<>>,
                marks |-> [i \in Cells |-> 0]]

SeedingStep(next) ==
  /\ seeding' = next
  /\ UNCHANGED <<canvasVars, gpuVars, lastOp, updates, rendererVars, hashCall, uvCall,
                 gpu_pass, main, pixelState>>

\* One iteration of placeSeeds' scan over the grid: a main-text cell not yet
\* visited starts a flood fill, any other cell is passed over.
ScanCell ==
  /\ seeding.pc = "scan"
  /\ seeding.idx < W * H
  /\ IF maskData[seeding.idx] > seedThreshold /\ seeding.visited[seeding.idx] = 0
     THEN SeedingStep([seeding EXCEPT !.pc = "fill", !.component = <<>>,
                                      !.stack = << <<seeding.idx % W, seeding.idx \div W>> >>])
     ELSE SeedingStep([seeding EXCEPT !.idx = @ + 1])

\* One iteration of floodFill's while loop; marks counts the times a cell
\* has been marked visited.
FillPop ==
  /\ seeding.pc = "fill"
  /\ seeding.stack # <<>>
  /\ LET top == seeding.stack[Len(seeding.stack)]
         rest == SubSeq(seeding.stack, 1, Len(seeding.stack) - 1)
         x == top[1]
         y == top[2]
         idx == y * W + x
     IN  IF x < 0 \/ x >= W \/ y < 0 \/ y >= H
           THEN SeedingStep([seeding EXCEPT !.stack = rest])
         ELSE IF seeding.visited[idx] = 1 \/ maskData[idx] <= seedThreshold
           THEN SeedingStep([seeding EXCEPT !.stack = rest])
         ELSE SeedingStep([seeding EXCEPT !.stack = rest \o pushNeighbours(x, y),
                                          !.visited[idx] = 1,
                                          !.marks[idx] = @ + 1,
                                          !.component = Append(@, idx)])

\* floodFill returns; placeSeeds keeps the component if it is not empty.
FillReturn ==
  /\ seeding.pc = "fill"
  /\ seeding.stack = <<>>
  /\ SeedingStep([seeding EXCEPT !.pc = "scan", !.idx = @ + 1,
                                 !.components = IF Len(seeding.component) > 0
                                                THEN Append(@, seeding.component) ELSE @])

\* The rest of placeSeeds and of setMaskFromImage: one random seed per
\* component in buffer 0, copied to buffer 1.
PlaceSeedsEnd ==
  /\ seeding.pc = "scan"
  /\ seeding.idx = W * H
  /\ \E draws \in [1 .. Len(seeding.components) -> 0 .. (RandDen - 1)] :
       stateBuffers' =
         [b \in 0 .. 1 |->
            [idx \in Cells |->
               IF \E i \in 1 .. Len(seeding.components) :
                    idx = seedCell(seeding.components[i], draws[i])
               THEN [on |-> 1, age |-> 0] ELSE stateBuffers[0][idx]]]
  /\ seeding' = [seeding EXCEPT !.pc = "done"]
  /\ lastOp' = "setMaskFromImage"
  /\ UNCHANGED <<currentBuffer, maskData, isComplete, stepCount, gpuVars, updates,
                 rendererVars, hashCall, uvCall, gpu_pass, main, pixelState>>

NextFill ==
  \/ ScanCell
  \/ FillPop
  \/ FillReturn
  \/ PlaceSeedsEnd

SpecFill == InitFill /\ [][NextFill]_vars

\* ------------------------------------------------------------- a wide grid
\* new CanvasGrowthSimulation(StripW, StripH): the sequential backend on a
\* grid of its own size, held in the canvas variables.
StripCells == 0 .. (StripW * StripH - 1)

\* Rasters of the grid's own size (every cell samples its own pixel): row 0
\* is main text from column 0 up to column last, everything else is empty.
StripImages ==
  { [w |-> StripW, h |-> StripH,
     data |-> [i \in StripCells |-> IF i <= last THEN 255 ELSE 0]] :
       last \in {StripW - 2, StripW - 1} }

strip_sampleImage(img, x, y) ==
  img.data[((y * img.h) \div StripH) * img.w + ((x * img.w) \div StripW)]

strip_intensityMask(img) ==
  [idx \in StripCells |-> strip_sampleImage(img, idx % StripW, idx \div StripW)]

strip_isOn(current, nx, ny) ==
  current[(((ny % StripH) + StripH) % StripH) * StripW
          + (((nx % StripW) + StripW) % StripW)].on = 1

strip_stepCell(current, mask, x, y) ==
  LET idx == y * StripW + x
  IN  IF mask[idx] = 0 THEN [on |-> 0, age |-> 0]
      ELSE IF current[idx].on = 1 THEN [on |-> 1, age |-> current[idx].age + 1]
      ELSE IF \/ strip_isOn(current, x - 1, y)     \/ strip_isOn(current, x + 1, y)
              \/ strip_isOn(current, x, y - 1)     \/ strip_isOn(current, x, y + 1)
              \/ strip_isOn(current, x - 1, y - 1) \/ strip_isOn(current, x + 1, y - 1)
              \/ strip_isOn(current, x - 1, y + 1) \/ strip_isOn(current, x + 1, y + 1)
        THEN [on |-> 1, age |-> 0]
      ELSE [on |-> 0, age |-> 0]

InitStrip ==
  /\ stateBuffers = [b \in 0 .. 1 |-> [idx \in StripCells |-> OffCell]]
  /\ currentBuffer = 0
  /\ maskData = [idx \in StripCells |-> 0]
  /\ isComplete = FALSE
  /\ stepCount = 0
  /\ gpu_stateBuffers = [b \in 0 .. 1 |-> EmptyBuffer]
  /\ gpu_currentBuffer = 0
  /\ gpu_maskData = EmptyMask
  /\ gpu_isComplete = FALSE
  /\ gpu_stepCount = 0
  /\ lastOp = "constructor"
  /\ updates = 0
  /\ underlineRegion = NoUnderline
  /\ wobbleEnabled = FALSE
  /\ wobbleStartTime = 0
  /\ frame = NoFrame
  /\ gpu_pass = NoPass
  /\ seeding = NoCall
  /\ main = NoCall
  /\ pixelState = NoCall
  /\ hashCall = NoCall
  /\ uvCall = NoCall

\* setMaskFromImage with a raster of StripImages: its main-text cells are
\* one component, and placeSeeds seeds a random cell of it in both buffers.
strip_CallSetMaskFromImage ==
  /\ lastOp = "constructor"
  /\ \E img \in StripImages :
       \E seed \in { idx \in StripCells : strip_intensityMask(img)[idx] > seedThreshold } :
         /\ maskData' = strip_intensityMask(img)
         /\ stateBuffers' = [b \in 0 .. 1 |->
                               [idx \in StripCells |->
                                  IF idx = seed THEN [on |-> 1, age |-> 0] ELSE OffCell]]
  /\ isComplete' = FALSE
  /\ stepCount' = 0
  /\ lastOp' = "setMaskFromImage"
  /\ UNCHANGED <<currentBuffer, gpuVars, updates, rendererVars, hashCall, uvCall, gpu_pass, pageVars>>

strip_CallStep ==
  /\ lastOp # "constructor"
  /\ IF isComplete THEN UNCHANGED canvasVars
     ELSE /\ stepCount' = stepCount + 1
          /\ stateBuffers' = [stateBuffers EXCEPT ![1 - currentBuffer] =
                                [idx \in StripCells |->
                                   strip_stepCell(stateBuffers[currentBuffer], maskData,
                                                  idx % StripW, idx \div StripW)]]
          /\ currentBuffer' = 1 - currentBuffer
          /\ isComplete' = stepCompletes(stepCount + 1)
          /\ UNCHANGED maskData
  /\ lastOp' = "step"
  /\ UNCHANGED <<gpuVars, updates, rendererVars, hashCall, uvCall, gpu_pass, pageVars>>

NextStrip ==
  \/ strip_CallSetMaskFromImage
  \/ strip_CallStep

SpecStrip == InitStrip /\ [][NextStrip]_vars

\* ------------------------------------------------------------- resampling
\* Rasters whose size differs from the grid, every pixel with its own
\* intensity, handed to setMaskFromImage and to updateMask.
ResampleImages ==
  { [w |-> d[1], h |-> d[2],
     data |-> [i \in 0 .. (d[1] * d[2] - 1) |-> (i * 61 + o) % 256]] :
       d \in ResampleDims, o \in ResampleOffsets }
ResampleSeedingCases == SeedingCases(ResampleImages)

NextResample ==
  \/ CallSetMaskFromImage(ResampleSeedingCases)
  \/ CallUpdateMask(ResampleImages)

SpecResample == Init /\ [][NextResample]_vars

\* ------------------------------------------------------------- hash evaluations
\* The hash of a cell of the page's grid is evaluated on both backends, any
\* number of times; previous is what the call before returned.
InitHash ==
  /\ Constructed
  /\ uvCall = NoCall
  /\ \E x \in 0 .. (simWidth - 1), y \in 0 .. (simHeight - 1) :
       hashCall = [op |-> "args", x |-> x, y |-> y]

CallHash ==
  /\ hashCall.op \in {"args", "hash"}
  /\ LET delayRand == hash(hashCall.x, hashCall.y)
         gpu_delayRand == gpu_hash(hashCall.x, hashCall.y)
     IN  hashCall' = [op |-> "hash", x |-> hashCall.x, y |-> hashCall.y, t |-> 0,
                      canvas |-> delayRand,
                      gpu |-> gpu_delayRand,
                      visibilityDelay |-> visibilityDelay(delayRand),
                      gpu_visibilityDelay |-> gpu_visibilityDelay(gpu_delayRand),
                      previous |-> IF hashCall.op = "hash"
                                   THEN <<hashCall.canvas, hashCall.gpu>> ELSE <<>>]
  /\ UNCHANGED <<canvasVars, gpuVars, lastOp, updates, rendererVars, uvCall, gpu_pass, pageVars>>

CallHashTime ==
  /\ hashCall.op \in {"args", "hashTime"}
  /\ \E t \in TimeSlots :
       /\ hashCall.op = "hashTime" => t = hashCall.t
       /\ hashCall' = [op |-> "hashTime", x |-> hashCall.x, y |-> hashCall.y, t |-> t,
                       canvas |-> hashTime(hashCall.x, hashCall.y, t),
                       gpu |-> gpu_hashTime(hashCall.x, hashCall.y, t),
                       previous |-> IF hashCall.op = "hashTime"
                                    THEN <<hashCall.canvas, hashCall.gpu>> ELSE <<>>]
  /\ UNCHANGED <<canvasVars, gpuVars, lastOp, updates, rendererVars, uvCall, gpu_pass, pageVars>>

NextHash ==
  \/ CallHash
  \/ CallHashTime

SpecHash == InitHash /\ [][NextHash]_vars

\* ------------------------------------------------------------- wobble evaluations
\* The idle wobble of a cell of the page's grid is evaluated on both backends
\* for a time slot: the wobble chance and the cell that is sampled.
InitWobble ==
  /\ Constructed
  /\ uvCall = NoCall
  /\ \E x \in 0 .. (simWidth - 1), y \in 0 .. (simHeight - 1) :
       hashCall = [op |-> "cell", x |-> x, y |-> y]

CallWobble ==
  /\ hashCall.op = "cell"
  /\ \E t \in TimeSlots :
       hashCall' = [op |-> "wobble", x |-> hashCall.x, y |-> hashCall.y, t |-> t,
                    wobbleChance |-> hashTime(hashCall.x, hashCall.y, t),
                    gpu_wobbleChance |-> gpu_hashTime(hashCall.x, hashCall.y, t),
                    canvas |-> wobbleCell(hashCall.x, hashCall.y,
                                          hashTime(hashCall.x, hashCall.y, t),
                                          simWidth, simHeight),
                    gpu |-> wobbleCell(hashCall.x, hashCall.y,
                                       gpu_hashTime(hashCall.x, hashCall.y, t),
                                       simWidth, simHeight)]
  /\ UNCHANGED <<canvasVars, gpuVars, lastOp, updates, rendererVars, uvCall, gpu_pass, pageVars>>

NextWobble == CallWobble

SpecWobble == InitWobble /\ [][NextWobble]_vars

\* ------------------------------------------------------------- rendering
\* The mask images of the rendered runs: main text on the left half, and
\* main text, shadow or nothing on the right half.
RenderImages == { i \in ImagesOf(RenderDims) : i.data[0] = 255 }
RenderSeedingCases == SeedingCases(RenderImages)

setUnderline(region) ==
  /\ underlineRegion' = region
  /\ UNCHANGED <<wobbleEnabled, wobbleStartTime>>

clearUnderline ==
  /\ underlineRegion' = NoUnderline
  /\ UNCHANGED <<wobbleEnabled, wobbleStartTime>>

enableWobble(currentTime) ==
  /\ wobbleEnabled' = TRUE
  /\ wobbleStartTime' = currentTime
  /\ UNCHANGED underlineRegion

disableWobble ==
  /\ wobbleEnabled' = FALSE
  /\ UNCHANGED <<underlineRegion, wobbleStartTime>>

\* Pixel (px, py) of a canvas has index py * canvasWidth + px.
Pixels(canvasWidth, canvasHeight) == 0 .. (canvasWidth * canvasHeight - 1)

\* render(): every pixel of the canvas.
render(time, canvasWidth, canvasHeight) ==
  [p \in Pixels(canvasWidth, canvasHeight) |->
     renderPixel(p % canvasWidth, p \div canvasWidth, time, canvasWidth, canvasHeight)]

\* The draw of the fragment shader over the same canvas, bound to the same
\* state and mask and given the same underline, wobble flag, time and size.
gpu_render(time, canvasWidth, canvasHeight) ==
  LET u == [time |-> time, wobbleEnabled |-> wobbleEnabled, underline |-> underlineRegion,
            canvasWidth |-> canvasWidth, canvasHeight |-> canvasHeight]
  IN  [p \in Pixels(canvasWidth, canvasHeight) |->
         gpu_fragmentMain(getCurrentState, maskData, u,
                          gpu_fragmentUV(p % canvasWidth, p \div canvasWidth,
                                         canvasWidth, canvasHeight))]

RendererCall(op) ==
  /\ op
  /\ frame' = NoFrame
  /\ UNCHANGED <<canvasVars, gpuVars, lastOp, updates, hashCall, uvCall, gpu_pass, pageVars>>

CallSetUnderline == \E region \in UnderlineRegions : RendererCall(setUnderline(region))
CallClearUnderline == RendererCall(clearUnderline)
CallEnableWobble == \E currentTime \in WobbleStarts : RendererCall(enableWobble(currentTime))
CallDisableWobble == RendererCall(disableWobble)

\* One frame is rendered by both renderers; frame holds it until the next
\* call on the simulation or the renderer.
CallRender(sizes) ==
  /\ frame = NoFrame
  /\ \E time \in FrameTimes, size \in sizes :
       frame' = [op |-> "render", time |-> time,
                 canvasWidth |-> size[1], canvasHeight |-> size[2],
                 canvas |-> render(time, size[1], size[2]),
                 gpu |-> gpu_render(time, size[1], size[2])]
  /\ UNCHANGED <<canvasVars, gpuVars, lastOp, updates, underlineRegion, wobbleEnabled,
                 wobbleStartTime, hashCall, uvCall, gpu_pass, pageVars>>

\* A page: a mask is set, the run grows or is completed at once, the
\* navigation sets the underline and the wobble, and frames are rendered.
NextRender ==
  \/ (stepCount = 0 /\ CallSetMaskFromImage(RenderSeedingCases))
  \/ (stepCount < MaxRenderSteps /\ CallStep)
  \/ CallSetComplete
  \/ CallSetUnderline
  \/ CallClearUnderline
  \/ CallEnableWobble
  \/ CallDisableWobble
  \/ CallRender(CanvasSizes)

SpecRender == Init /\ [][NextRender]_vars

\* The home page on a later visit: the mask is set and the run completed at
\* once, the wobble is enabled, and frames are rendered.
NextIdle ==
  \/ (lastOp = "constructor" /\ CallSetMaskFromImage(RenderSeedingCases))
  \/ (lastOp = "setMaskFromImage" /\ CallSetComplete)
  \/ CallEnableWobble
  \/ CallRender(IdleCanvasSizes)

SpecIdle == Init /\ [][NextIdle]_vars

\* A page whose mask is replaced while it is shown (the hover effect): a
\* mask is set, the run is completed at once or stepped, updateMask hands in
\* another raster, the underline is set or cleared, and frames are rendered
\* with the wobble off.
NextRemask ==
  \/ (lastOp = "constructor" /\ CallSetMaskFromImage(RenderSeedingCases))
  \/ (lastOp = "setMaskFromImage" /\ CallSetComplete)
  \/ ((stepCount < MaxRenderSteps \/ stepCount >= regrowStepCount) /\ CallStep)
  \/ (lastOp # "constructor" /\ CallUpdateMask(RenderImages))
  \/ CallSetUnderline
  \/ CallClearUnderline
  \/ CallRender(CanvasSizes)

SpecRemask == Init /\ [][NextRemask]_vars

\* A page whose navigation sets, degenerates and clears the underline while
\* the run is seeded or complete and the wobble is off or on.
CallSetInactiveUnderline == \E region \in InactiveRegions : RendererCall(setUnderline(region))

NextUnderline ==
  \/ (lastOp = "constructor" /\ CallSetMaskFromImage(RenderSeedingCases))
  \/ (lastOp = "setMaskFromImage" /\ CallSetComplete)
  \/ CallSetUnderline
  \/ CallSetInactiveUnderline
  \/ CallClearUnderline
  \/ CallEnableWobble
  \/ CallRender(CanvasSizes)

SpecUnderline == Init /\ [][NextUnderline]_vars

\* ------------------------------------------------------------- dispatch
\* The mask image of the runs whose passes are followed unit by unit: text
\* on the left half, nothing on the right half.
DispatchImages == { [w |-> 2, h |-> 1, data |-> [k \in 0 .. 1 |-> IF k = 0 THEN 255 ELSE 0]] }
DispatchSeedingCases == SeedingCases(DispatchImages)

\* step() up to queue.submit and the lines after it: the pass is encoded with
\* bindGroups[currentBuffer] and one invocation per cell, and the buffers
\* are swapped on the CPU side. The sequential backend runs its whole loop.
SubmitStep ==
  /\ ~ gpu_pass.open
  /\ ~ gpu_isComplete
  /\ gpu_stepCount < MaxRenderSteps
  /\ step
  /\ gpu_stepCount' = gpu_stepCount + 1
  /\ gpu_currentBuffer' = 1 - gpu_currentBuffer
  /\ gpu_isComplete' = (gpu_stepCount + 1 > completeStepCount)
  /\ gpu_pass' = [open |-> TRUE, pending |-> Cells, bindGroup |-> gpu_currentBuffer,
                  before |-> gpu_stateBuffers]
  /\ lastOp' = "step"
  /\ frame' = NoFrame
  /\ UNCHANGED <<gpu_stateBuffers, gpu_maskData, updates, underlineRegion, wobbleEnabled,
                 wobbleStartTime, hashCall, uvCall, pageVars>>

\* One invocation of main, for the cell idx, scheduled at any point of the pass.
Invocation(idx) ==
  /\ gpu_pass.open
  /\ idx \in gpu_pass.pending
  /\ gpu_stateBuffers' =
       [gpu_stateBuffers EXCEPT ![gpu_nextStateBinding(gpu_pass.bindGroup)][idx] =
          gpu_main(gpu_currentStateBinding(gpu_pass.bindGroup), gpu_maskData,
                   idx % W, idx \div W)]
  /\ gpu_pass' = [gpu_pass EXCEPT !.pending = @ \ {idx}]
  /\ UNCHANGED <<canvasVars, gpu_currentBuffer, gpu_maskData, gpu_isComplete, gpu_stepCount,
                 lastOp, updates, rendererVars, hashCall, uvCall, pageVars>>

\* The pass ends when its last invocation has returned.
PassEnd ==
  /\ gpu_pass.open
  /\ gpu_pass.pending = {}
  /\ gpu_pass' = NoPass
  /\ UNCHANGED <<canvasVars, gpuVars, lastOp, updates, rendererVars, hashCall, uvCall, pageVars>>

\* The queue runs its commands in order: a mask is written and a pass is
\* submitted only when the pass before has ended.
NextDispatch ==
  \/ (~ gpu_pass.open /\ gpu_stepCount = 0 /\ CallSetMaskFromImage(DispatchSeedingCases))
  \/ SubmitStep
  \/ \E idx \in Cells : Invocation(idx)
  \/ PassEnd

SpecDispatch == Init /\ [][NextDispatch]_vars

\* ------------------------------------------------------------- aspect correction
\* The correction is evaluated for a corner, edge or middle pixel of a
\* canvas, by both renderers at the same uv.
InitAspect ==
  /\ Constructed
  /\ hashCall = NoCall
  /\ \E size \in AspectCanvasSizes, sim \in AspectSimSizes, fx \in 0 .. 2, fy \in 0 .. 2,
        wobble \in BOOLEAN, time \in FrameTimes :
       uvCall = [op |-> "args", canvasWidth |-> size[1], canvasHeight |-> size[2],
                 simWidth |-> sim[1], simHeight |-> sim[2],
                 px |-> (fx * (size[1] - 1)) \div 2, py |-> (fy * (size[2] - 1)) \div 2,
                 wobbleEnabled |-> wobble, time |-> time]

\* render() and fragmentMain up to the test of the simulation bounds.
CallCorrectUV ==
  /\ uvCall.op = "args"
  /\ LET c == uvCall
         inputUV == pixelUV(c.px, c.py, c.canvasWidth, c.canvasHeight)
         uv == correctUV(inputUV, c.canvasWidth, c.canvasHeight, c.simWidth, c.simHeight)
         gpu_uv == gpu_correctUV(inputUV, c.canvasWidth, c.canvasHeight, c.simWidth, c.simHeight)
     IN  uvCall' = [c EXCEPT !.op = "correctUV"] @@
                   [uv |-> uv, outside |-> outsideBounds(uv),
                    colour |-> IF outsideBounds(uv) THEN VOID_BLACK ELSE "cell",
                    gpu_uv |-> gpu_uv, gpu_outside |-> outsideBounds(gpu_uv),
                    gpu_colour |-> IF ~ outsideBounds(gpu_uv) THEN "cell"
                                   ELSE IF c.wobbleEnabled
                                     THEN gpu_calculateStar(inputUV, c.time, c.canvasWidth,
                                                            c.canvasHeight)
                                   ELSE gpu_void_black]
  /\ UNCHANGED <<canvasVars, gpuVars, lastOp, updates, rendererVars, hashCall, gpu_pass, pageVars>>

NextAspect == CallCorrectUV

SpecAspect == InitAspect /\ [][NextAspect]_vars

\* ------------------------------------------------------------- properties
\* Cells of the canvas mask that seed placement may seed.
Eligible == { idx \in Cells : maskData[idx] > seedThreshold }

\* Cardinal neighbours on the grid, without wraparound.
Adjacent4(i, j) ==
  LET xi == i % W
      yi == i \div W
      xj == j % W
      yj == j \div W
  IN  \/ (yi = yj /\ (xi = xj + 1 \/ xj = xi + 1))
      \/ (xi = xj /\ (yi = yj + 1 \/ yj = yi + 1))

\* The 4-connected component of the cells S inside the set region.
RECURSIVE Closure4(_, _)
Closure4(S, region) ==
  LET T == S \cup { j \in region : \E i \in S : Adjacent4(i, j) }
  IN  IF T = S THEN S ELSE Closure4(T, region)

Component4(idx) == Closure4({idx}, Eligible)

OnCells == { idx \in Cells : getCurrentState[idx].on = 1 }
gpu_OnCells == { idx \in Cells : gpu_getCurrentStateBuffer[idx].on = 1 }

\* C1: with the same mask input, the same random draws and the same number
\* of step() calls, both backends hold the same (on, age) grid after seeding
\* and after every step.
BackendParity ==
  \A idx \in Cells : getCurrentState[idx] = gpu_getCurrentStateBuffer[idx]

\* C2: a cell that is on in the current buffer is still on after any call
\* that does not reseed (step, setComplete, updateMask), provided its mask
\* value is nonzero after the call; on both backends.
MonotonicGrowth ==
  [][lastOp' # "setMaskFromImage" =>
       /\ \A idx \in Cells :
            (getCurrentState[idx].on = 1 /\ maskData'[idx] # 0)
              => getCurrentState'[idx].on = 1
       /\ \A idx \in Cells :
            (gpu_getCurrentStateBuffer[idx].on = 1 /\ gpu_maskData'[idx] # 0)
              => gpu_getCurrentStateBuffer'[idx].on = 1]_vars

\* C2 witness: a growing run whose mask updateMask has replaced by a
\* nonzero one has just executed a step over a cell that was on, and the
\* cell is still on, two steps old.
MonotonicGrowthWitness ==
  /\ lastOp = "step"
  /\ ~isComplete
  /\ stepCount >= 2
  /\ \E idx \in Cells :
       /\ maskData[idx] = 1
       /\ getCurrentState[idx].on = 1
       /\ getCurrentState[idx].age = 2

\* C3: after a step() call, every cell whose mask value is 0 is off with
\* age 0 in the current buffer.
MaskDominance ==
  lastOp = "step" =>
    \A idx \in Cells : maskData[idx] = 0 => getCurrentState[idx] = OffCell

\* C3 on the parallel backend alone.
gpu_MaskDominance ==
  lastOp = "step" =>
    \A idx \in Cells : gpu_maskData[idx] = 0 => gpu_getCurrentStateBuffer[idx] = OffCell

\* C4: in a growth run over a non-empty mask, isComplete is true exactly
\* once 60 step() calls have been executed, and false before.
CompleteAfterSixtySteps ==
  Eligible # {} => (isComplete <=> stepCount >= completeStepCount)

\* C5: right after setMaskFromImage, every 4-connected component of cells
\* with mask intensity > 128 holds exactly one on cell, no other cell is
\* on, and every on cell has age 0.
SeedCountInvariant ==
  lastOp = "setMaskFromImage" =>
    /\ \A idx \in Eligible : Cardinality(Component4(idx) \cap OnCells) = 1
    /\ OnCells \subseteq Eligible
    /\ \A idx \in OnCells : getCurrentState[idx].age = 0

\* C5 witness: a mask with two components (two cells that are eligible
\* but not connected), just seeded with two seeds.
SeedCountWitness ==
  /\ lastOp = "setMaskFromImage"
  /\ Cardinality(OnCells) = 2
  /\ \E i \in Eligible : \E j \in Eligible : j \notin Component4(i)

\* C6: right after setComplete, isComplete is true and every cell with a
\* nonzero mask is on in the buffer the renderer reads, with an age of at
\* least the maximum visibility delay; on both backends.
ForceComplete ==
  lastOp = "setComplete" =>
    /\ isComplete
    /\ \A idx \in Cells : maskData[idx] > 0 =>
         /\ getCurrentState[idx].on = 1
         /\ getCurrentState[idx].age >= maxVisibilityDelay
    /\ gpu_isComplete
    /\ \A idx \in Cells : gpu_maskData[idx] > 0 =>
         /\ gpu_getCurrentStateBuffer[idx].on = 1
         /\ gpu_getCurrentStateBuffer[idx].age >= maxVisibilityDelay

\* C6 witness: setComplete called with zero prior steps on a mask whose
\* cells are all eligible but not all seedable.
ForceCompleteWitness ==
  /\ lastOp = "setComplete"
  /\ stepCount = 0
  /\ \A idx \in Cells : maskData[idx] > 0 /\ maskData[idx] <= seedThreshold
  /\ OnCells = Cells

\* C7: a step() call while isComplete is true changes neither cell buffer,
\* nor the current-buffer index, the step counter, the mask or isComplete;
\* on both backends.
StepNoOpWhenComplete ==
  [][/\ (isComplete /\ lastOp' = "step") => UNCHANGED canvasVars
     /\ (gpu_isComplete /\ lastOp' = "step") => UNCHANGED gpuVars]_vars

\* C7 witness: step() was called on a run that setComplete had completed
\* before its 61st step.
StepNoOpWitness ==
  /\ lastOp = "step"
  /\ isComplete
  /\ stepCount <= completeStepCount
  /\ OnCells # {}

\* C8: right after setMaskFromImage, whatever the state before, both
\* buffers are equal, the on cells are seedable cells with age 0, one per
\* component, every other cell is off with age 0, the step counter is 0
\* and isComplete is false.
FullResetAndReseed ==
  lastOp = "setMaskFromImage" =>
    /\ stateBuffers[0] = stateBuffers[1]
    /\ OnCells \subseteq Eligible
    /\ Cardinality(OnCells) = Cardinality({ Component4(idx) : idx \in Eligible })
    /\ \A idx \in OnCells : getCurrentState[idx].age = 0
    /\ \A idx \in Cells \ OnCells : getCurrentState[idx] = OffCell
    /\ stepCount = 0
    /\ ~isComplete

\* C8 witness: setMaskFromImage called after an odd number of executed
\* steps (the current buffer is the second one), placing a seed.
FullResetWitness ==
  /\ lastOp = "setMaskFromImage"
  /\ currentBuffer = 1
  /\ OnCells # {}

\* C9: an updateMask call changes neither cell buffer nor the
\* current-buffer index; on both backends.
UpdateMaskKeepsCells ==
  [][lastOp' = "updateMask" =>
       /\ UNCHANGED <<stateBuffers, currentBuffer>>
       /\ UNCHANGED <<gpu_stateBuffers, gpu_currentBuffer>>]_vars

\* C9 witness: updateMask has replaced the mask under cells that are on:
\* an on cell now has mask 0.
UpdateMaskWitness ==
  /\ lastOp = "updateMask"
  /\ \E idx \in OnCells : maskData[idx] = 0

\* C10: right after setMaskFromImage with a mask without any cell of
\* intensity > 128, no cell is on and isComplete is true.
EmptyMaskCompletes ==
  (lastOp = "setMaskFromImage" /\ Eligible = {}) =>
    (OnCells = {} /\ isComplete)

\* C11: in every reachable state, whatever calls of setMaskFromImage, step,
\* setComplete and updateMask led to it, every cell that is off in the
\* current buffer has age 0 (sequential and parallel backend).
AgeInvariant ==
  \A idx \in Cells :
    /\ getCurrentState[idx].on # 1 => getCurrentState[idx].age = 0
    /\ gpu_getCurrentStateBuffer[idx].on # 1 => gpu_getCurrentStateBuffer[idx].age = 0

\* A step has just turned off a cell that was on with a positive age (the
\* other buffer still holds it): its age is back to 0.
AgeInvariantWitness ==
  /\ lastOp = "step"
  /\ \E idx \in Cells :
       /\ stateBuffers[1 - currentBuffer][idx].on = 1
       /\ stateBuffers[1 - currentBuffer][idx].age >= 1
       /\ maskData[idx] = 0
       /\ getCurrentState[idx] = OffCell

HashRange ==
  hashCall.op \in {"hash", "hashTime"} =>
    /\ 0 <= hashCall.canvas.num /\ hashCall.canvas.num < hashCall.canvas.den
    /\ 0 <= hashCall.gpu.num /\ hashCall.gpu.num < hashCall.gpu.den

\* C14: for every cell (x, y) of the grid the visibility delay
\* floor(hash(x, y)^2 * 6) is an integer from 0 to 5, on both backends.
VisibilityDelayRange ==
  hashCall.op = "hash" =>
    /\ hashCall.visibilityDelay \in 0 .. (maxVisibilityDelay - 1)
    /\ hashCall.gpu_visibilityDelay \in 0 .. (maxVisibilityDelay - 1)

\* The delay of a cell has been computed and is the largest allowed, 5.
VisibilityDelayWitness ==
  /\ hashCall.op = "hash"
  /\ hashCall.visibilityDelay = maxVisibilityDelay - 1
  /\ hashCall.gpu_visibilityDelay = maxVisibilityDelay - 1

\* C15: a pixel that samples an on cell shows it (is not drawn in the
\* background colour) if and only if the cell's age is at least its
\* visibility delay; so every on cell of age 6 or more is shown, in the main
\* text or the shadow colour, wherever it is.
RevealRule ==
  frame.op = "render" =>
    \A p \in DOMAIN frame.canvas :
      LET pixel == frame.canvas[p]
          cell == getCurrentState[pixel.cell]
          delay == visibilityDelay(hash(pixel.cell % W, pixel.cell \div W))
      IN  (pixel.branch = "cell" /\ cell.on = 1) =>
            /\ (pixel.colour # VOID_BLACK) <=> (cell.age >= delay)
            /\ cell.age >= maxVisibilityDelay => pixel.colour \in {WHITE, SHADOW}

\* A frame of a growing run shows an on cell whose age has reached its
\* positive delay and hides an on cell whose age has not.
RevealRuleWitness ==
  /\ frame.op = "render"
  /\ \E p, q \in DOMAIN frame.canvas :
       LET shown == frame.canvas[p]
           hidden == frame.canvas[q]
       IN  /\ shown.branch = "cell" /\ hidden.branch = "cell"
           /\ getCurrentState[shown.cell].on = 1
           /\ getCurrentState[hidden.cell].on = 1
           /\ visibilityDelay(hash(shown.cell % W, shown.cell \div W)) > 0
           /\ getCurrentState[shown.cell].age
                >= visibilityDelay(hash(shown.cell % W, shown.cell \div W))
           /\ getCurrentState[hidden.cell].age
                < visibilityDelay(hash(hidden.cell % W, hidden.cell \div W))
           /\ shown.colour \in {WHITE, SHADOW}
           /\ hidden.colour = VOID_BLACK

\* C16: rendering the same state, mask, underline, wobble flag, time and
\* canvas size, the sequential renderer and the fragment shader give every
\* pixel the same colour (a pixel on a star whose brightness is left
\* undecided is not compared).
RenderParity ==
  frame.op = "render" =>
    \A p \in DOMAIN frame.canvas :
      \/ frame.canvas[p].colour = frame.gpu[p].colour
      \/ frame.gpu[p].colour = [star |-> "dim"]

\* C17: on an 800x600 canvas with a 256x256 simulation the pixel at uv
\* (0, 0) is outside the simulation after the aspect correction and is drawn
\* in the background colour by both renderers.
AspectLetterboxing ==
  ( /\ uvCall.op = "correctUV"
    /\ uvCall.canvasWidth = 800 /\ uvCall.canvasHeight = 600
    /\ uvCall.simWidth = 256 /\ uvCall.simHeight = 256
    /\ uvCall.px = 0 /\ uvCall.py = 0 ) =>
    /\ uvCall.outside /\ uvCall.colour = VOID_BLACK
    /\ uvCall.gpu_outside /\ uvCall.gpu_colour = gpu_void_black
    /\ gpu_void_black = VOID_BLACK

\* The scenario has been evaluated with the wobble (and so the star field)
\* enabled: the corrected uvX is -1/6.
AspectLetterboxingWitness ==
  /\ uvCall.op = "correctUV"
  /\ uvCall.canvasWidth = 800 /\ uvCall.canvasHeight = 600
  /\ uvCall.simWidth = 256 /\ uvCall.simHeight = 256
  /\ uvCall.px = 0 /\ uvCall.py = 0
  /\ uvCall.wobbleEnabled
  /\ uvCall.uv[1] = <<-1, 6>>
  /\ uvCall.outside

\* C18: during a pass of the parallel backend, whatever the order of the
\* invocations so far, the buffer bound as currentState is as it was when the
\* pass was submitted, every slot of nextState whose invocation has run holds
\* what the sequential loop computes for that cell from that buffer and mask,
\* and every other slot is untouched; so when the last invocation has run the
\* next buffer is the result of the sequential row-major loop.
SchedulingIndependence ==
  gpu_pass.open =>
    LET read == gpu_pass.bindGroup
        sequential == stepBuffer(gpu_pass.before[read], gpu_maskData)
    IN  /\ gpu_stateBuffers[read] = gpu_pass.before[read]
        /\ gpu_currentBuffer = 1 - read
        /\ \A idx \in Cells :
             gpu_stateBuffers[1 - read][idx] =
               IF idx \in gpu_pass.pending THEN gpu_pass.before[1 - read][idx]
               ELSE sequential[idx]

\* The second pass of a run has ended its last invocation: a seed has aged
\* to 2, a cell has turned on in this pass or the one before, and a cell
\* outside the mask is off.
SchedulingIndependenceWitness ==
  /\ gpu_pass.open
  /\ gpu_pass.pending = {}
  /\ gpu_stepCount = 2
  /\ \E i, j, k \in Cells :
       /\ gpu_stateBuffers[gpu_currentBuffer][i] = [on |-> 1, age |-> 2]
       /\ gpu_stateBuffers[gpu_currentBuffer][j] = [on |-> 1, age |-> 1]
       /\ gpu_stateBuffers[gpu_currentBuffer][k].on = 0
       /\ gpu_pass.before[1 - gpu_currentBuffer][j].age = 0

\* The cells of the 8-cell Moore neighbourhood of idx on the torus: column 0
\* is next to column W - 1 and row 0 next to row H - 1.
MooreNeighbours(idx) ==
  { (((idx \div W) + dy + H) % H) * W + (((idx % W) + dx + W) % W) :
      <<dx, dy>> \in ({-1, 0, 1} \X {-1, 0, 1}) \ {<<0, 0>>} }

\* C19: in an executed step, a cell that is off and has a nonzero mask value
\* is on with age 0 in the next buffer if one of its 8 toroidal Moore
\* neighbours is on in the current buffer, and off otherwise; on both
\* backends.
GrowthRule ==
  [][lastOp' = "step" =>
       /\ ~ isComplete =>
            \A idx \in Cells :
              (getCurrentState[idx].on = 0 /\ maskData[idx] # 0) =>
                IF \E n \in MooreNeighbours(idx) : getCurrentState[n].on = 1
                THEN getCurrentState'[idx] = [on |-> 1, age |-> 0]
                ELSE getCurrentState'[idx].on = 0
       /\ ~ gpu_isComplete =>
            \A idx \in Cells :
              (gpu_getCurrentStateBuffer[idx].on = 0 /\ gpu_maskData[idx] # 0) =>
                IF \E n \in MooreNeighbours(idx) : gpu_getCurrentStateBuffer[n].on = 1
                THEN gpu_getCurrentStateBuffer'[idx] = [on |-> 1, age |-> 0]
                ELSE gpu_getCurrentStateBuffer'[idx].on = 0]_vars

\* The first step of a run seeded at cell 0 has turned on the cells of
\* column W - 1 and of row H - 1, which column 0 and row 0 reach only around
\* the edge; the buffer the step read still shows them off.
GrowthRuleWitness ==
  /\ lastOp = "step"
  /\ stepCount = 1
  /\ \A idx \in Cells : stateBuffers[1 - currentBuffer][idx].on = 1 <=> idx = 0
  /\ getCurrentState[W - 1] = [on |-> 1, age |-> 0]
  /\ getCurrentState[(H - 1) * W] = [on |-> 1, age |-> 0]
  /\ gpu_stepCount = 1
  /\ \A idx \in Cells : gpu_stateBuffers[1 - gpu_currentBuffer][idx].on = 1 <=> idx = 0
  /\ gpu_getCurrentStateBuffer[W - 1] = [on |-> 1, age |-> 0]
  /\ gpu_getCurrentStateBuffer[(H - 1) * W] = [on |-> 1, age |-> 0]

\* C20: in an executed step, a cell that is on and has a nonzero mask value
\* is on with its age raised by exactly one, and a cell that goes from off
\* to on has age 0; on both backends.
AgeModel ==
  [][lastOp' = "step" =>
       /\ ~ isComplete =>
            \A idx \in Cells :
              /\ (getCurrentState[idx].on = 1 /\ maskData[idx] # 0) =>
                   getCurrentState'[idx] = [on |-> 1, age |-> getCurrentState[idx].age + 1]
              /\ (getCurrentState[idx].on = 0 /\ getCurrentState'[idx].on = 1) =>
                   getCurrentState'[idx].age = 0
       /\ ~ gpu_isComplete =>
            \A idx \in Cells :
              /\ (gpu_getCurrentStateBuffer[idx].on = 1 /\ gpu_maskData[idx] # 0) =>
                   gpu_getCurrentStateBuffer'[idx] =
                     [on |-> 1, age |-> gpu_getCurrentStateBuffer[idx].age + 1]
              /\ (gpu_getCurrentStateBuffer[idx].on = 0
                    /\ gpu_getCurrentStateBuffer'[idx].on = 1) =>
                   gpu_getCurrentStateBuffer'[idx].age = 0]_vars

\* Two steps into a run the seed has age 2 and the cells it turned on in
\* the first step have age 1, on both backends.
AgeModelWitness ==
  /\ lastOp = "step"
  /\ stepCount = 2 /\ gpu_stepCount = 2
  /\ \E i, j \in Cells :
       /\ getCurrentState[i] = [on |-> 1, age |-> 2]
       /\ getCurrentState[j] = [on |-> 1, age |-> 1]
       /\ stateBuffers[1 - currentBuffer][i] = [on |-> 1, age |-> 1]
       /\ stateBuffers[1 - currentBuffer][j] = [on |-> 1, age |-> 0]
  /\ \E i, j \in Cells :
       /\ gpu_getCurrentStateBuffer[i] = [on |-> 1, age |-> 2]
       /\ gpu_getCurrentStateBuffer[j] = [on |-> 1, age |-> 1]

\* C21: the step executed right after an updateMask call on a Complete run
\* (the only way the step counter gets past regrowStepCount) does not report
\* Complete again: the run stays Growing for more than one step; on both
\* backends.
RegrowthLastsSeveralSteps ==
  /\ (lastOp = "step" /\ stepCount = regrowStepCount + 1) => ~ isComplete
  /\ (lastOp = "step" /\ gpu_stepCount = regrowStepCount + 1) => ~ gpu_isComplete

\* C22: an executed step() of the sequential backend leaves the buffer it
\* read as it was, flips the index once, and the buffer the index then
\* names (what getCurrentState returns) is the whole result of the step.
PingPong ==
  [][(lastOp' = "step" /\ ~ isComplete) =>
       /\ currentBuffer' = 1 - currentBuffer
       /\ stateBuffers'[currentBuffer] = stateBuffers[currentBuffer]
       /\ getCurrentState' = stepBuffer(getCurrentState, maskData)]_vars

\* Two steps into a run the index is back at its first value and the two
\* buffers hold different generations.
PingPongWitness ==
  /\ lastOp = "step"
  /\ stepCount = 2
  /\ currentBuffer = 0
  /\ stateBuffers[0] # stateBuffers[1]
  /\ \E idx \in Cells : /\ stateBuffers[0][idx] = [on |-> 1, age |-> 2]
                        /\ stateBuffers[1][idx] = [on |-> 1, age |-> 1]

NoRule == [r |-> -1, g |-> -1, b |-> -1]

\* The colour the priority list gives a pixel with corrected uv that samples
\* the cell idx of state, for a palette <<background, foreground, shadow>>;
\* NoRule where no rule of the list applies (a revealed cell with mask 0).
PriorityColour(uv, idx, state, mask, region, delay, palette) ==
  IF inUnderline(uv, region) THEN palette[2]
  ELSE IF state[idx].on # 1 THEN palette[1]
  ELSE IF state[idx].age < delay THEN palette[1]
  ELSE IF mask[idx] > 128 THEN palette[2]
  ELSE IF mask[idx] > 0 THEN palette[3]
  ELSE NoRule

\* C23: every pixel of a frame that is inside the simulation has the colour
\* of the first applicable rule of the priority list (underline, off, not
\* revealed, main text, shadow), and the shadow tint is drawn only for a
\* mask value in (0, 128]; for both renderers.
ColourResolution ==
  frame.op = "render" =>
    \A p \in DOMAIN frame.canvas :
      LET px == p % frame.canvasWidth
          py == p \div frame.canvasWidth
          pixel == frame.canvas[p]
          gpu_pixel == frame.gpu[p]
      IN  /\ pixel.branch # "outside" =>
               LET expected ==
                     PriorityColour(pixelCorrectedUV(px, py, frame.canvasWidth, frame.canvasHeight),
                                    IF pixel.cell < 0 THEN 0 ELSE pixel.cell,
                                    getCurrentState, maskData, underlineRegion,
                                    visibilityDelay(hash(pixel.cell % W, pixel.cell \div W)),
                                    <<VOID_BLACK, WHITE, SHADOW>>)
               IN  IF expected = NoRule THEN pixel.colour # SHADOW
                   ELSE pixel.colour = expected
          /\ gpu_pixel.branch # "outside" =>
               LET gpu_expected ==
                     PriorityColour(gpu_correctUV(gpu_fragmentUV(px, py, frame.canvasWidth,
                                                                 frame.canvasHeight),
                                                  frame.canvasWidth, frame.canvasHeight, W, H),
                                    IF gpu_pixel.cell < 0 THEN 0 ELSE gpu_pixel.cell,
                                    getCurrentState, maskData, underlineRegion,
                                    gpu_visibilityDelay(gpu_hash(gpu_pixel.cell % W,
                                                                 gpu_pixel.cell \div W)),
                                    <<gpu_void_black, gpu_white, gpu_shadow_color>>)
               IN  IF gpu_expected = NoRule THEN gpu_pixel.colour # gpu_shadow_color
                   ELSE gpu_pixel.colour = gpu_expected

\* The four wobble directions: left, right, up, down.
WobbleStep(dir) ==
  IF dir = 0 THEN <<-1, 0>> ELSE IF dir = 1 THEN <<1, 0>>
  ELSE IF dir = 2 THEN <<0, -1>> ELSE <<0, 1>>

\* The cell one step from (x, y) in the direction floor(c * 133) mod 4.
WobbleTarget(x, y, c) ==
  <<x + WobbleStep(((c.num * 133) \div c.den) % 4)[1],
    y + WobbleStep(((c.num * 133) \div c.den) % 4)[2]>>

InSimGrid(cell) ==
  /\ 0 <= cell[1] /\ cell[1] < simWidth
  /\ 0 <= cell[2] /\ cell[2] < simHeight

\* What the wobble rule allows for the cell (x, y) with wobble chance c.
WobbleRule(x, y, c, cell) ==
  /\ InSimGrid(cell)
  /\ cell # <<x, y>> => (c.num * 100 < 3 * c.den /\ cell = WobbleTarget(x, y, c))
  /\ (c.num * 100 < 3 * c.den /\ InSimGrid(WobbleTarget(x, y, c)))
       => cell = WobbleTarget(x, y, c)

\* C24: with the wobble on, the sampled cell is displaced only if
\* c = hashTime(cellX, cellY, slot) < 0.03, then by exactly one grid step in
\* the direction floor(c * 133) mod 4, and it always lies inside the grid: at
\* a grid edge the cell is left in place; for both renderers.
IdleWobbleDisplacement ==
  hashCall.op = "wobble" =>
    /\ WobbleRule(hashCall.x, hashCall.y, hashTime(hashCall.x, hashCall.y, hashCall.t),
                  hashCall.canvas)
    /\ WobbleRule(hashCall.x, hashCall.y, gpu_hashTime(hashCall.x, hashCall.y, hashCall.t),
                  hashCall.gpu)

IdleWobbleDisplacementWitness ==
  /\ hashCall.op = "wobble"
  /\ hashCall.canvas # <<hashCall.x, hashCall.y>>
  /\ hashCall.gpu = hashCall.canvas

\* C25: while the wobble is disabled the rendered frame does not depend on
\* the time argument: render calls with the same automaton state, mask,
\* underline rectangle and canvas size give the same pixel buffer at every
\* frame time.
TimeIndependence ==
  (frame.op = "render" /\ ~ wobbleEnabled) =>
    \A time \in FrameTimes :
      render(time, frame.canvasWidth, frame.canvasHeight) = frame.canvas

TimeIndependenceWitness ==
  /\ frame.op = "render" /\ ~ wobbleEnabled
  /\ frame.time = 6000
  /\ wobbleStartTime # 0
  /\ \E p, q \in DOMAIN frame.canvas :
       /\ frame.canvas[p].colour = WHITE
       /\ frame.canvas[q].colour = SHADOW

\* uv lies in the rectangle, whatever its width is.
InRectangle(uv, region) ==
  /\ ratLeq(Rat(region.x, 100), uv[1])
  /\ ratLeq(uv[1], Rat(region.x + region.w, 100))
  /\ ratLeq(Rat(region.y, 100), uv[2])
  /\ ratLeq(uv[2], Rat(region.y + region.h, 100))

\* The underline rule for one pixel with corrected uv.
UnderlineRule(uv, pixel, white) ==
  /\ underlineRegion.w <= 0 => pixel.branch # "underline"
  /\ (underlineRegion.w > 0 /\ ~ outsideBounds(uv) /\ InRectangle(uv, underlineRegion))
       => (pixel.branch = "underline" /\ pixel.colour = white)

\* C26: when the underline rectangle has width <= 0 (also after
\* clearUnderline) no pixel is coloured by the underline rule, whatever x, y
\* and height are; when the width is > 0 every in-bounds pixel inside the
\* rectangle is white regardless of cell state, reveal state and wobble; for
\* both renderers.
InactiveUnderline ==
  frame.op = "render" =>
    \A p \in DOMAIN frame.canvas :
      /\ UnderlineRule(pixelCorrectedUV(p % frame.canvasWidth, p \div frame.canvasWidth,
                                         frame.canvasWidth, frame.canvasHeight),
                       frame.canvas[p], WHITE)
      /\ UnderlineRule(gpu_correctUV(gpu_fragmentUV(p % frame.canvasWidth,
                                                    p \div frame.canvasWidth,
                                                    frame.canvasWidth, frame.canvasHeight),
                                     frame.canvasWidth, frame.canvasHeight, W, H),
                       frame.gpu[p], gpu_white)

InactiveUnderlineWitness ==
  /\ frame.op = "render"
  /\ underlineRegion.w = 0 /\ underlineRegion.h > 0
  /\ \E p \in DOMAIN frame.canvas :
       /\ InRectangle(pixelCorrectedUV(p % frame.canvasWidth, p \div frame.canvasWidth,
                                       frame.canvasWidth, frame.canvasHeight),
                      underlineRegion)
       /\ frame.canvas[p].branch = "cell"

\* The nearest-neighbour source coordinate floor((cell / gridSize) * sourceSize).
SourceCoordinate(cell, gridSize, sourceSize) == (cell * sourceSize) \div gridSize

\* The source pixel of the grid cell idx lies inside the raster img, and
\* value is what the entry point makes of its intensity.
SampledInside(img, idx, value, threshold) ==
  LET sx == SourceCoordinate(idx % W, W, img.w)
      sy == SourceCoordinate(idx \div W, H, img.h)
  IN  /\ 0 <= sx /\ sx < img.w
      /\ 0 <= sy /\ sy < img.h
      /\ value = IF threshold < 0 THEN img.data[sy * img.w + sx]
                 ELSE IF img.data[sy * img.w + sx] > threshold THEN 1 ELSE 0

\* C27: setMaskFromImage and updateMask accept a raster of any size
\* different from the grid: for every grid cell the nearest-neighbour source
\* coordinate lies inside the raster, and the mask keeps its fixed W x H
\* shape; on both backends.
ResamplingStaysInside ==
  /\ DOMAIN maskData = Cells
  /\ DOMAIN gpu_maskData = Cells
  /\ lastOp \in {"setMaskFromImage", "updateMask"} =>
       \E img \in ResampleImages :
         \A idx \in Cells :
           /\ SampledInside(img, idx, maskData[idx],
                            IF lastOp = "updateMask" THEN gpuMaskThreshold ELSE -1)
           /\ SampledInside(img, idx, gpu_maskData[idx], gpuMaskThreshold)

ResamplingStaysInsideWitness ==
  /\ lastOp = "updateMask"
  /\ \E img \in ResampleImages :
       /\ img.w > W /\ img.h < H
       /\ maskData = thresholdMask(img)
       /\ \E i, j \in Cells : maskData[i] = 0 /\ maskData[j] = 1

\* C28: whenever getIsComplete() is true, every cell that is on in the
\* buffer returned by getCurrentState() has a nonzero mask value.
CompleteImpliesMasked ==
  isComplete => \A idx \in Cells : getCurrentState[idx].on = 1 => maskData[idx] # 0

\* The eligible cells of the wide grid that are 8-adjacent (toroidally) to
\* a cell of S.
StripAdjacent(S) ==
  { idx \in StripCells :
      /\ maskData[idx] > 0
      /\ \E dx, dy \in {-1, 0, 1} :
           ((((idx \div StripW) + dy + StripH) % StripH) * StripW
            + (((idx % StripW) + dx + StripW) % StripW)) \in S }

\* The eligible cells connected to S through chains of eligible cells.
RECURSIVE StripConnected(_)
StripConnected(S) ==
  IF StripAdjacent(S) \subseteq S THEN S ELSE StripConnected(S \cup StripAdjacent(S))

\* The seeds of a run advanced only by step(): the cells as old as the run.
StripSeeds == { idx \in StripCells : getCurrentState[idx] = [on |-> 1, age |-> stepCount] }

\* C29: when a run that was advanced only by step() reports Complete, every
\* mask-eligible cell connected to a seed through a chain of 8-adjacent
\* (toroidal) eligible cells is on.
GrowthCoversMask ==
  (lastOp = "step" /\ isComplete) =>
    \A idx \in StripConnected(StripSeeds) : getCurrentState[idx].on = 1

\* C30: for the same raster updateMask stores in every mask cell the value
\* setMaskFromImage stores, the sampled 0-255 intensity: right after an
\* updateMask call the mask is the intensity mask of the raster handed in.
SameMaskIngestion ==
  lastOp = "updateMask" => \E img \in ApiImages : maskData = intensityMask(img)

\* The work placeSeeds still has to do: entries on the stack, four pushes
\* for every main-text cell not yet visited, and the cells still to scan.
SeedingWork(c) ==
  Len(c.stack)
  + 4 * Cardinality({ i \in Cells : maskData[i] > seedThreshold /\ c.visited[i] = 0 })
  + 3 * (W * H - c.idx)
  + (IF c.pc = "scan" THEN 2 ELSE 0)

\* The components found so far, the one being filled included.
SeedingComponents ==
  IF seeding.pc = "fill" THEN Append(seeding.components, seeding.component)
  ELSE seeding.components

\* Neighbours in a row or a column of the grid, without wraparound.
GridAdjacent(i, j) ==
  \/ (i \div W = j \div W /\ (i % W = (j % W) + 1 \/ j % W = (i % W) + 1))
  \/ (i % W = j % W /\ (i \div W = (j \div W) + 1 \/ j \div W = (i \div W) + 1))

\* Each cell is marked at most once and is in at most one component, only
\* main-text cells are added, and every cell of a component but the first
\* is a neighbour, without wraparound, of a cell added before it.
SeedingPartition ==
  /\ \A i \in Cells :
       /\ seeding.marks[i] = seeding.visited[i]
       /\ seeding.marks[i] <= 1
       /\ Cardinality({ <<c, k>> \in (1 .. Len(SeedingComponents)) \X (1 .. W * H) :
                          /\ k <= Len(SeedingComponents[c])
                          /\ SeedingComponents[c][k] = i }) = seeding.marks[i]
       /\ seeding.marks[i] = 1 => maskData[i] > seedThreshold
       /\ (seeding.pc = "done" /\ maskData[i] > seedThreshold) => seeding.marks[i] = 1
  /\ \A c \in 1 .. Len(SeedingComponents) :
       \A k \in 2 .. Len(SeedingComponents[c]) :
         \E j \in 1 .. (k - 1) :
           GridAdjacent(SeedingComponents[c][k], SeedingComponents[c][j])
  /\ seeding.pc = "done" => seeding.components = findComponents(maskData)

\* C31: for every mask placeSeeds and its flood fill terminate (every loop
\* iteration lessens the work left, which is never negative); each cell
\* with intensity > 128 is marked visited exactly once and put in exactly one
\* component, cells with intensity <= 128 are never added, and the fill
\* never crosses a grid edge by wraparound.
SeedPlacementTerminates ==
  /\ [](SeedingPartition /\ SeedingWork(seeding) >= 0)
  /\ [][seeding' # seeding => SeedingWork(seeding') < SeedingWork(seeding)]_vars

SeedPlacementTerminatesWitness ==
  /\ seeding.pc = "done"
  /\ Len(seeding.components) = 2
  /\ \E i, j \in Cells :
       /\ i % W = 0 /\ j = i + W - 1
       /\ maskData[i] > seedThreshold /\ maskData[j] > seedThreshold
       /\ \E c, d \in 1 .. 2 :
            /\ c # d
            /\ \E k \in 1 .. Len(seeding.components[c]) : seeding.components[c][k] = i
            /\ \E k \in 1 .. Len(seeding.components[d]) : seeding.components[d][k] = j

\* C32: in the page's frame loop, for every order of navigation events and
\* animation frames, at every render call in which the renderer's wobble is
\* enabled the simulation reports getIsComplete() = true, and step() is never
\* called on a Complete simulation.
WobbleOnlyWhenIdle ==
  (main.lastCall.op = "frame" /\ main.lastCall.rendered) =>
    /\ main.lastCall.wobbleEnabled => main.lastCall.isComplete
    /\ main.lastCall.wobbleEnabled = wobbleEnabled
    /\ main.lastCall.isComplete = isComplete
    /\ ~ main.lastCall.steppedComplete

WobbleOnlyWhenIdleWitness ==
  /\ main.lastCall.op = "frame" /\ main.lastCall.rendered
  /\ main.lastCall.wobbleEnabled /\ main.lastCall.isComplete
  /\ stepCount = completeStepCount + 1
  /\ main.loads > 0

\* Frames a hover fill still needs at most: one per unfilled pixel and one
\* to find the overlay full.
HoverFillWork(s) == Cardinality(unfilledIndices(s)) + (IF s.isFilled THEN 0 ELSE 1)
PointerStays(op) == op \notin {"mouseleave", "resize"}

====
